---- MODULE Spec2Model ----
(***************************************************************************)
(* A model of the version-aware project model of metasip                   *)
(* (src/metasip/Project.py): the generation list, the merge of parsed      *)
(* header code into the curated tree (HeaderDirectory._mergeCode), the     *)
(* version range formatting, the SIP conditionals, the signatures of       *)
(* arguments and of code elements, the XML save/load round trip with the   *)
(* ids and the escaping of the saved file, the files that Project.save     *)
(* and Project.generateModule leave on the disk, the hash of a header      *)
(* file, the scan of a header directory, the indenting writer              *)
(* (_IndentFile) and the access regions that Class.sip writes.             *)
(***************************************************************************)
EXTENDS Integers, Sequences, FiniteSets, TLC

\* ------------------------------------------------------------------ bounds

\* The most versions addVersion is followed to.
MaxVersions == 2
\* The most elements of the tree: a merge or an insertion that would make
\* the tree larger is not followed.
MaxElems == 3
\* The most ManualCode elements the user adds.
MaxManual == 1
\* The most versions of a project that is asked for version ranges.
MaxRangeVersions == 3
\* The most calls of generateModule that write files.
MaxRuns == 2

\* ------------------------------------------------------------------ values

\* The version labels the user may give to addVersion.
Labels == <<"1.0", "2.0", "3.0", "4.0", "5.0">>

\* str() of a generation number and int() of its string form.
GenStr == <<"1", "2", "3", "4", "5", "6">>
Str(n) == GenStr[n]
ToInt(s) == CHOOSE n \in 1..Len(GenStr) : GenStr[n] = s

\* The kinds of code element (the concrete Python classes).
ContainerKinds == {"Class", "Namespace"}

\* ------------------------------------------------------------------ state

VARIABLES
    versions,    \* Project.versions: the ordered list of version labels
    generation,  \* Project.generation: 0 while the attribute is not yet set
    dirty,       \* IDirty(project).dirty
    hfExists,    \* the header directory holds the header file
    content,     \* HeaderFile.content: the curated tree of code elements
    pre,         \* content as it was before the latest merge
    preDirty,    \* dirty as it was before the latest merge
    lastParsed,  \* the parsed list given to the latest merge
    repeated,    \* the latest merge repeated the one before it, same input
    calls,       \* the _mergeCode invocations of the latest merge
    rangeCall,   \* the latest call of Project.versionRange and its result
    sipFile,     \* the _IndentFile of the latest generation of a .sip file
    apiCall,     \* the latest version_start .. version_end of an adapter
    sigCall,     \* the latest pair of calls of a signature()
    saveCall,    \* the latest call of Project.save: the project and the result
    loadCall,    \* the latest call of Project.load: the result
    projName,    \* Project.name: the name of the project's file
    diagnostic,  \* Project.diagnostic: '' while the attribute is not yet set
    disk,        \* the files on the disk, each with what it holds
    fileOp,      \* the save or generateModule under way, or the latest one
    scanCall,    \* the latest pair of header files hashed by _scanHeaderFile
    headers,     \* HeaderDirectory.content: the header files of the directory
    requests,    \* the calls made of an _IndentFile, in their order
    lastOp       \* the operation that led to this state

\* The project and the record of its latest merge.
treeVars == <<versions, generation, dirty, hfExists, content, pre, preDirty,
              lastParsed, repeated, calls>>

\* The records of the calls of the functions that change no state.
callVars == <<rangeCall, sipFile, apiCall, sigCall, saveCall, loadCall>>

\* The files and what is done with them.
fileVars == <<projName, diagnostic, disk, fileOp, scanCall, headers, requests>>

vars == <<treeVars, callVars, fileVars, lastOp>>

\* No call made yet.
NoCall == <<>>

CallsIdle ==
    /\ rangeCall = NoCall
    /\ sipFile = NoCall
    /\ apiCall = NoCall
    /\ sigCall = NoCall
    /\ saveCall = NoCall
    /\ loadCall = NoCall

\* A disk without files.
NoFiles == <<>>

\* A project without a name, and nothing done with files.
FilesIdle ==
    /\ projName = ""
    /\ diagnostic = ""
    /\ disk = NoFiles
    /\ fileOp = NoCall
    /\ scanCall = NoCall
    /\ headers = <<>>
    /\ requests = <<>>

\* ------------------------------------------------------------------ elements

\* A code element as the parser creates it: status 'unknown', no generations,
\* no platforms, features or annotations.  struct tells a struct from a
\* class.
Elem(kind, name, access, sub) ==
    [kind |-> kind, name |-> name, access |-> access, struct |-> FALSE,
     platforms |-> "", features |-> "", annos |-> "",
     status |-> "unknown", sgen |-> "", egen |-> "", content |-> sub]

\* ProjectElement.isCurrent
isCurrent(e) == e.egen = ""

\* Access.sigAccess: the first word of the access, 'signals' counting as
\* protected and 'public' as nothing.
sigAccess(e) ==
    LET s == IF e.access = "public slots" THEN "public"
             ELSE IF e.access = "protected slots" THEN "protected"
             ELSE e.access
    IN  IF s = "signals" THEN "protected"
        ELSE IF s = "public" THEN ""
        ELSE s

\* ProjectElement.sipAnnos
sipAnnos(e) == IF e.annos # "" THEN " /" \o e.annos \o "/" ELSE ""

\* signature() of each kind.  The name of a callable stands for its return
\* type, name and argument list, the name of a variable or a typedef for its
\* type and name.  Namespace and Typedef have the signature of Code, which
\* is user(); Variable, OpaqueClass, Enum and ManualCode add the access to
\* it; user() of Variable, Typedef and OpaqueClass ends with sipAnnos().
signature(e) ==
    CASE e.kind = "Class"            -> "class " \o e.name \o sigAccess(e)
      [] e.kind = "Namespace"        -> "namespace " \o e.name
      [] e.kind = "Method"           -> e.name \o "()" \o sigAccess(e)
      [] e.kind = "Function"         -> e.name \o "()"
      [] e.kind = "ManualCode"       -> e.name \o sigAccess(e)
      [] e.kind = "Constructor"      -> e.name \o "()" \o sigAccess(e)
      [] e.kind = "Destructor"       -> e.name \o sigAccess(e)
      [] e.kind = "OperatorMethod"   -> "operator" \o e.name \o "()" \o sigAccess(e)
      [] e.kind = "OperatorCast"     -> "operator " \o e.name \o "()" \o sigAccess(e)
      [] e.kind = "OperatorFunction" -> "operator" \o e.name \o "()"
      [] e.kind = "Enum"             -> "enum " \o e.name \o sigAccess(e)
      [] e.kind = "Variable"         -> e.name \o sipAnnos(e) \o sigAccess(e)
      [] e.kind = "Typedef"          -> "typedef " \o e.name \o sipAnnos(e)
      [] e.kind = "OpaqueClass"      -> "class " \o e.name \o sipAnnos(e) \o sigAccess(e)
      [] OTHER                       -> e.name

\* ------------------------------------------------------------------ merge

\* A merge that takes two elements of one class for the same declaration.
Matches_KindOnly(dsi, ssi) == dsi.kind = ssi.kind

\* The test of _mergeCode for "the same declaration": the same concrete
\* class and equal signatures.
Matches(dsi, ssi) == dsi.kind = ssi.kind /\ signature(dsi) = signature(ssi)

\* A merge that takes the last parsed item that matches.
FindMatch_Last(dsi, ssc) ==
    IF \E k \in 1..Len(ssc) : Matches(dsi, ssc[k])
    THEN CHOOSE k \in 1..Len(ssc) :
             /\ Matches(dsi, ssc[k])
             /\ \A j \in (k + 1)..Len(ssc) : ~Matches(dsi, ssc[j])
    ELSE 0

\* The inner for loop of _mergeCode: the index of the first parsed item that
\* matches dsi, 0 when the loop ends without a break (ssi = None).
FindMatch(dsi, ssc) ==
    IF \E k \in 1..Len(ssc) : Matches(dsi, ssc[k])
    THEN CHOOSE k \in 1..Len(ssc) :
             /\ Matches(dsi, ssc[k])
             /\ \A j \in 1..(k - 1) : ~Matches(dsi, ssc[j])
    ELSE 0

\* A merge that forgets to discard the parsed item it matched.
RemoveAt_Kept(ssc, k) == ssc

\* ssc.remove(ssi): the parsed list without the item found.
RemoveAt(ssc, k) == SubSeq(ssc, 1, k - 1) \o SubSeq(ssc, k + 1, Len(ssc))

\* A merge that retires an item at the last generation in which it was
\* there.
Retire_LastPresent(dsi, gen) ==
    [dsi EXCEPT !.egen = IF gen > 1 THEN Str(gen - 1) ELSE Str(gen)]

\* A merge that leaves a vanished item as it is.
Retire_Forgotten(dsi, gen) == dsi

\* dsi.egen = str(project.generation)
Retire(dsi, gen) == [dsi EXCEPT !.egen = Str(gen)]

\* A merge that checks the items it appends.
NewItem_Checked(ssi, gen) == [ssi EXCEPT !.sgen = Str(gen), !.status = ""]

\* ssi.sgen = str(project.generation), before it is appended.
NewItem(ssi, gen) == [ssi EXCEPT !.sgen = Str(gen)]

\* A merge that puts the new items in front of the existing ones.
AppendNew_InFront(dcontent, new) == new \o dcontent

\* A merge that appends the new items last one first.
AppendNew_Reversed(dcontent, new) ==
    dcontent \o [j \in 1..Len(new) |-> new[Len(new) + 1 - j]]

\* dsc.content.append(ssi) for each of the new items, in their order.
AppendNew(dcontent, new) == dcontent \o new

\* isinstance(dsi, ManualCode)
IsManualCode(dsi) == dsi.kind = "ManualCode"

\* A merge that goes into the values of an enum as well.
IsContainer_WithEnum(dsi) == dsi.kind \in ContainerKinds \cup {"Enum"}

\* isinstance(dsi, (Class, Namespace))
IsContainer(dsi) == dsi.kind \in ContainerKinds

\* A merge without the test for manual code.
Skipped_NoManualTest(dsi) == ~isCurrent(dsi)

\* A merge without the test for retired items.
Skipped_NoCurrentTest(dsi) == IsManualCode(dsi)

\* The existing items that _mergeCode leaves alone.
Skipped(dsi) == ~isCurrent(dsi) \/ IsManualCode(dsi)

\* HeaderDirectory._mergeCode(dsc, ssc) on dsc.content = dcontent.  MergeLoop
\* is its loop over the existing items: done are the items gone through,
\* todo the ones still to go, ssc what is left of the parsed list and subs
\* the invocations made for the children.  MergeCode gives the new content
\* and the invocations made, this one first: what it was given (pre, ssc),
\* the parsed items left over by the loop (left) and the content it leaves.
RECURSIVE MergeCode(_, _, _), MergeLoop(_, _, _, _, _)
MergeLoop(done, todo, ssc, subs, gen) ==
    IF todo = <<>> THEN [done |-> done, ssc |-> ssc, calls |-> subs]
    ELSE LET dsi == Head(todo)
             k == FindMatch(dsi, ssc)
         IN  IF Skipped(dsi)
             THEN MergeLoop(Append(done, dsi), Tail(todo), ssc, subs, gen)
             ELSE IF k = 0
             THEN MergeLoop(Append(done, Retire(dsi, gen)), Tail(todo), ssc, subs, gen)
             ELSE IF IsContainer(dsi)
             THEN LET sub == MergeCode(dsi.content, ssc[k].content, gen)
                  IN  MergeLoop(Append(done, [dsi EXCEPT !.content = sub.content]),
                                Tail(todo), RemoveAt(ssc, k), subs \o sub.calls, gen)
             ELSE MergeLoop(Append(done, dsi), Tail(todo), RemoveAt(ssc, k), subs, gen)

MergeCode(dcontent, ssc, gen) ==
    LET end == MergeLoop(<<>>, dcontent, ssc, <<>>, gen)
        post == AppendNew(end.done,
                          [j \in 1..Len(end.ssc) |-> NewItem(end.ssc[j], gen)])
    IN  [content |-> post,
         calls   |-> <<[pre |-> dcontent, ssc |-> ssc, left |-> end.ssc,
                        post |-> post]>> \o end.calls]

\* _mergeCode gets to read project.generation: an existing item is to be
\* retired or a parsed item is left to be appended, here or in a nested
\* invocation.
RECURSIVE ReadsGeneration(_, _)
ReadsGeneration(todo, ssc) ==
    IF todo = <<>> THEN ssc # <<>>
    ELSE LET dsi == Head(todo)
             k == FindMatch(dsi, ssc)
         IN  IF Skipped(dsi) THEN ReadsGeneration(Tail(todo), ssc)
             ELSE IF k = 0 THEN TRUE
             ELSE \/ IsContainer(dsi) /\ ReadsGeneration(dsi.content, ssc[k].content)
                  \/ ReadsGeneration(Tail(todo), RemoveAt(ssc, k))

\* _mergeCode raises AttributeError: it reads project.generation, which
\* Project.__init__ does not set, before any addVersion.  It raises before
\* it has changed the tree: the assignment of the generation comes first.
MergeRaises(dcontent, ssc, gen) == gen = 0 /\ ReadsGeneration(dcontent, ssc)

\* A merge that marks the project dirty only when the tree has changed.
DirtyAfterMerge_IfChanged(d, before, after) == d \/ before # after

\* addParsedHeaderFile: "Assume something has changed."
DirtyAfterMerge(d, before, after) == TRUE

\* ------------------------------------------------------------------ inputs

\* Sequences over S of at most n items.
SeqsUpTo(S, n) == UNION {[1..k -> S] : k \in 0..n}

\* The elements of a list of elements, nested ones included.
RECURSIVE NrElems(_)
NrElems(c) ==
    IF c = <<>> THEN 0 ELSE 1 + NrElems(Head(c).content) + NrElems(Tail(c))

Fits(c) == NrElems(c) <= MaxElems

\* What the parser delivers for the header file: functions and classes at
\* the top level, methods (of either access) in the classes.
ParsedMethods == {Elem("Method", "m", "public", <<>>),
                  Elem("Method", "n", "protected", <<>>)}
ParsedClasses == {Elem("Class", "K", "", sub) : sub \in SeqsUpTo(ParsedMethods, 2)}
ParsedFunctions == {Elem("Function", "f", "", <<>>)}
ParsedItems == ParsedClasses \cup ParsedFunctions
ParsedSize(phf) ==
    LET upto[i \in 0..Len(phf)] ==
            IF i = 0 THEN 0 ELSE upto[i - 1] + 1 + Len(phf[i].content)
    IN  upto[Len(phf)]
ParsedLists ==
    {phf : phf \in {l \in SeqsUpTo(ParsedItems, MaxElems) : ParsedSize(l) <= MaxElems}}

\* ManualCode(precis), as the user creates it.
NewManualCode == Elem("ManualCode", "f()", "", <<>>)

\* The ManualCode elements of a list of elements, nested ones included.
RECURSIVE NrManual(_)
NrManual(c) ==
    IF c = <<>> THEN 0
    ELSE (IF Head(c).kind = "ManualCode" THEN 1 ELSE 0)
         + NrManual(Head(c).content) + NrManual(Tail(c))

InsertAt(c, i, e) == SubSeq(c, 1, i - 1) \o <<e>> \o SubSeq(c, i, Len(c))

\* ------------------------------------------------------------------ actions

Init ==
    /\ versions = <<>>
    /\ generation = 0
    /\ dirty = FALSE
    /\ hfExists = FALSE
    /\ content = <<>>
    /\ pre = <<>>
    /\ preDirty = FALSE
    /\ lastParsed = <<>>
    /\ repeated = FALSE
    /\ calls = <<>>
    /\ CallsIdle
    /\ FilesIdle
    /\ lastOp = "init"

\* What an operation other than a merge leaves of the record of the latest merge.
NoMerge ==
    /\ pre' = <<>>
    /\ preDirty' = FALSE
    /\ lastParsed' = <<>>
    /\ repeated' = FALSE
    /\ calls' = <<>>

\* An addVersion that puts the new version first.
addVersion_InFront ==
    /\ Len(versions) < MaxVersions
    /\ versions' = <<Labels[Len(versions) + 1]>> \o versions
    /\ generation' = Len(versions')
    /\ dirty' = TRUE
    /\ lastOp' = "addVersion"
    /\ NoMerge
    /\ UNCHANGED <<hfExists, content>>
    /\ UNCHANGED callVars
    /\ UNCHANGED fileVars

\* Project.addVersion(vers)
addVersion ==
    /\ Len(versions) < MaxVersions
    /\ versions' = Append(versions, Labels[Len(versions) + 1])
    /\ generation' = Len(versions')
    /\ dirty' = TRUE
    /\ lastOp' = "addVersion"
    /\ NoMerge
    /\ UNCHANGED <<hfExists, content>>
    /\ UNCHANGED callVars
    /\ UNCHANGED fileVars

\* HeaderDirectory.newHeaderFile(id, name, md5, parse, status, sgen): the
\* caller gives the generations, the project need not have a version.
newHeaderFile ==
    /\ ~hfExists
    /\ hfExists' = TRUE
    /\ dirty' = TRUE
    /\ lastOp' = "newHeaderFile"
    /\ NoMerge
    /\ UNCHANGED <<versions, generation, content>>
    /\ UNCHANGED callVars
    /\ UNCHANGED fileVars

\* HeaderDirectory.addParsedHeaderFile(hf, phf), for the parsed header files
\* of a set and a tree that may grow to a size.
MergeInto(lists, most) ==
    /\ hfExists
    /\ \E phf \in lists :
         IF MergeRaises(content, phf, generation)
         THEN /\ lastOp' = "mergeRaised"
              /\ lastParsed' = phf
              /\ repeated' = FALSE
              /\ calls' = <<>>
              /\ UNCHANGED <<content, dirty>>
         ELSE LET m == MergeCode(content, phf, generation)
              IN  /\ NrElems(m.content) <= most
                  /\ content' = m.content
                  /\ calls' = m.calls
                  /\ lastParsed' = phf
                  /\ repeated' = (lastOp = "merge" /\ phf = lastParsed)
                  /\ dirty' = DirtyAfterMerge(dirty, content, m.content)
                  /\ lastOp' = "merge"
    /\ pre' = content
    /\ preDirty' = dirty
    /\ UNCHANGED <<versions, generation, hfExists>>
    /\ UNCHANGED callVars
    /\ UNCHANGED fileVars

\* HeaderDirectory.addParsedHeaderFile(hf, phf)
addParsedHeaderFile == MergeInto(ParsedLists, MaxElems)

\* The user adds manual code to the header file or to one of its classes.
addManualCode ==
    /\ hfExists
    /\ NrManual(content) < MaxManual
    /\ \/ \E i \in 1..(Len(content) + 1) :
              content' = InsertAt(content, i, NewManualCode)
       \/ \E c \in 1..Len(content) :
              /\ content[c].kind \in ContainerKinds
              /\ \E i \in 1..(Len(content[c].content) + 1) :
                   content' = [content EXCEPT ![c].content =
                                   InsertAt(@, i, NewManualCode)]
    /\ Fits(content')
    /\ dirty' = TRUE
    /\ lastOp' = "addManualCode"
    /\ NoMerge
    /\ UNCHANGED <<versions, generation, hfExists>>
    /\ UNCHANGED callVars
    /\ UNCHANGED fileVars

\* HeaderDirectory.scan(sd, ui): 'saved = self[:]' raises TypeError, a
\* HeaderDirectory being no sequence, before a file is looked at.
scan ==
    /\ lastOp' = "scanRaised"
    /\ NoMerge
    /\ UNCHANGED <<versions, generation, dirty, hfExists, content>>
    /\ UNCHANGED callVars
    /\ UNCHANGED fileVars

\* The shell marks the project clean once Project.save has returned True.
saved ==
    /\ dirty
    /\ dirty' = FALSE
    /\ lastOp' = "saved"
    /\ NoMerge
    /\ UNCHANGED <<versions, generation, hfExists, content>>
    /\ UNCHANGED callVars
    /\ UNCHANGED fileVars

Next ==
    \/ addVersion
    \/ newHeaderFile
    \/ addParsedHeaderFile
    \/ addManualCode
    \/ scan
    \/ saved

Spec == Init /\ [][Next]_vars

\* ------------------------------------------------------------------ claims on merge

\* Two elements are the same declaration: the same concrete kind and equal
\* signatures.
SameDecl(a, b) == a.kind = b.kind /\ signature(a) = signature(b)

\* The paths (index sequences) of the ManualCode elements of a tree, each
\* with the element found there.
RECURSIVE ManualAt(_, _)
ManualAt(c, path) ==
    UNION {(IF c[i].kind = "ManualCode" THEN {<<Append(path, i), c[i]>>} ELSE {})
           \cup ManualAt(c[i].content, Append(path, i)) : i \in 1..Len(c)}

\* The elements of a tree that are classes.
Classes(c) == {c[i] : i \in {j \in 1..Len(c) : c[j].kind = "Class"}}

\* C1: in every _mergeCode run, an existing child that is current, is not
\* ManualCode and has no parsed item of its kind and signature has its end
\* generation set to the current generation and is still at its place in
\* the container's child list, otherwise unchanged.
C1_Retirement ==
    lastOp = "merge" =>
        \A n \in 1..Len(calls) : \A i \in 1..Len(calls[n].pre) :
            LET e == calls[n].pre[i]
            IN  (/\ e.egen = ""
                 /\ e.kind # "ManualCode"
                 /\ \A k \in 1..Len(calls[n].ssc) : ~SameDecl(e, calls[n].ssc[k]))
                => /\ Len(calls[n].post) >= i
                   /\ calls[n].post[i] = [e EXCEPT !.egen = Str(generation)]

\* A merge of a class with two current methods against a parsed class that
\* lacks one of them: the missing method is retired, the other is untouched.
C1_Witness ==
    /\ lastOp = "merge"
    /\ \E n \in 2..Len(calls) :
         /\ Len(calls[n].pre) = 2
         /\ calls[n].pre[1].egen = "" /\ calls[n].pre[2].egen = ""
         /\ calls[n].pre[1].kind = "Method" /\ calls[n].pre[2].kind = "Method"
         /\ calls[n].post[1] = calls[n].pre[1]
         /\ calls[n].post[2].egen = Str(generation)
         /\ generation > 1

\* C2: a merge that repeats the merge before it with an identical parsed
\* tree, in the same generation and with no edit in between, leaves the
\* whole tree as it was: no generation changes, nothing added, nothing
\* retired, at any depth.
C2_MergeIdempotent == (lastOp = "merge" /\ repeated) => content = pre

\* A repeated merge of a tree with a class that holds a retired and a
\* current method.
C2_Witness ==
    /\ lastOp = "merge" /\ repeated
    /\ lastParsed # <<>>
    /\ \E c \in Classes(content) :
         /\ \E i \in 1..Len(c.content) : c.content[i].egen # ""
         /\ \E i \in 1..Len(c.content) : c.content[i].egen = "" /\ c.content[i].sgen # ""

\* C3 as claimed: a merge that changes nothing leaves the dirty flag as it
\* was, so a clean project stays clean.
C3_DirtyUnchanged ==
    (lastOp = "merge" /\ lastParsed # <<>> /\ content = pre) => dirty = preDirty

\* C3 as amended: addParsedHeaderFile always marks the project dirty, also
\* when the merge has changed nothing.
C3_AlwaysDirty == lastOp = "merge" => dirty

\* A merge of a clean project that changes nothing of a non-empty tree.
C3_Witness ==
    /\ lastOp = "merge" /\ ~preDirty
    /\ content = pre /\ content # <<>> /\ lastParsed # <<>>

\* C4: in every merge each ManualCode element keeps its place in its
\* container and all its fields, whatever was parsed.
C4_ManualSticky ==
    lastOp = "merge" =>
        /\ \A n \in 1..Len(calls) : \A i \in 1..Len(calls[n].pre) :
               calls[n].pre[i].kind = "ManualCode"
               => /\ Len(calls[n].post) >= i
                  /\ calls[n].post[i] = calls[n].pre[i]
        /\ ManualAt(content, <<>>) = ManualAt(pre, <<>>)

\* A merge that goes into a class holding manual code and retires or adds
\* something there.
C4_Witness ==
    /\ lastOp = "merge"
    /\ \E n \in 2..Len(calls) :
         /\ \E i \in 1..Len(calls[n].pre) : calls[n].pre[i].kind = "ManualCode"
         /\ calls[n].post # calls[n].pre

\* The items of a list that are the declaration of x, in their order.
DeclsOf(c, x) == SelectSeq(c, LAMBDA e : SameDecl(e, x))

\* What a _mergeCode run has appended to the child list it was given.
Appended(call) == SubSeq(call.post, Len(call.pre) + 1, Len(call.post))

\* A retired child of the run, at index i, that is the declaration of x.
RetiredDecl(call, x) ==
    \E i \in 1..Len(call.pre) : call.pre[i].egen # "" /\ SameDecl(call.pre[i], x)

\* A current child of the run, other than manual code, that is the
\* declaration of x.
CurrentDecl(call, x) ==
    \E i \in 1..Len(call.pre) :
        /\ call.pre[i].egen = ""
        /\ call.pre[i].kind # "ManualCode"
        /\ SameDecl(call.pre[i], x)

\* The retired children of a run are where and what they were.
RetiredFrozen(call) ==
    \A i \in 1..Len(call.pre) :
        call.pre[i].egen # ""
        => /\ Len(call.post) >= i
           /\ call.post[i] = call.pre[i]

\* Every parsed item that is the declaration of x has been appended, with
\* the current generation as its start.
AllAppended(call, x) ==
    DeclsOf(Appended(call), x) =
        [j \in 1..Len(DeclsOf(call.ssc, x)) |->
            [DeclsOf(call.ssc, x)[j] EXCEPT !.sgen = Str(generation)]]

At0(list, i) == IF i < 0 THEN list[Len(list) + i + 1] ELSE list[i + 1]

\* A versionRange that is one off in the index of the label.
versionRange_OffByOne(vs, sgen, egen) ==
    IF sgen = ""
    THEN IF egen = "" THEN "" ELSE "- " \o At0(vs, ToInt(egen) - 2)
    ELSE IF egen = "" THEN At0(vs, ToInt(sgen) - 2) \o " -"
    ELSE At0(vs, ToInt(sgen) - 2) \o " - " \o At0(vs, ToInt(egen) - 2)

\* Project.versionRange(sgen, egen), vs being self.versions.
versionRange(vs, sgen, egen) ==
    IF sgen = ""
    THEN IF egen = "" THEN "" ELSE "- " \o At0(vs, ToInt(egen) - 1)
    ELSE IF egen = "" THEN At0(vs, ToInt(sgen) - 1) \o " -"
    ELSE At0(vs, ToInt(sgen) - 1) \o " - " \o At0(vs, ToInt(egen) - 1)

\* The labels of the versions of a project.
LabelSet == {"1.0", "2.0", "3.0"}

\* The generations of a project in string form, and '' for none.
GensOf(vs) == {""} \cup {Str(g) : g \in 1..Len(vs)}

\* A project with any list of versions.
InitRange ==
    /\ versions \in SeqsUpTo(LabelSet, MaxRangeVersions)
    /\ generation = Len(versions)
    /\ dirty = FALSE
    /\ hfExists = FALSE
    /\ content = <<>>
    /\ pre = <<>>
    /\ preDirty = FALSE
    /\ lastParsed = <<>>
    /\ repeated = FALSE
    /\ calls = <<>>
    /\ CallsIdle
    /\ FilesIdle
    /\ lastOp = "init"

\* A call of Project.versionRange with generations of the project.
callVersionRange ==
    /\ \E sgen \in GensOf(versions), egen \in GensOf(versions) :
         rangeCall' = [sgen |-> sgen, egen |-> egen,
                       result |-> versionRange(versions, sgen, egen)]
    /\ lastOp' = "versionRange"
    /\ UNCHANGED <<treeVars, sipFile, apiCall, sigCall, saveCall, loadCall>>
    /\ UNCHANGED fileVars

NextRange == callVersionRange

SpecRange == InitRange /\ [][NextRange]_vars

\* The label of generation g of the project: the g-th entry of the list of
\* versions, counted from one.
LabelOf(g) == versions[g]

\* C7: versionRange gives '' for no generations, '- ' and the label of the
\* end generation when only that is set, the label of the start generation
\* and ' -' when only that is set, and both labels with ' - ' between them
\* when both are set; with the versions 1.0, 2.0, 3.0 it gives '- 2.0' for
\* (none, 2), '1.0 -' for (1, none) and '2.0 - 3.0' for (2, 3).
C7_VersionRange ==
    lastOp = "versionRange" =>
        /\ \A s, e \in 1..Len(versions) :
             /\ (rangeCall.sgen = "" /\ rangeCall.egen = "")
                => rangeCall.result = ""
             /\ (rangeCall.sgen = "" /\ rangeCall.egen = GenStr[e])
                => rangeCall.result = "- " \o LabelOf(e)
             /\ (rangeCall.sgen = GenStr[s] /\ rangeCall.egen = "")
                => rangeCall.result = LabelOf(s) \o " -"
             /\ (rangeCall.sgen = GenStr[s] /\ rangeCall.egen = GenStr[e])
                => rangeCall.result = LabelOf(s) \o " - " \o LabelOf(e)
        /\ (rangeCall.sgen = "" /\ rangeCall.egen = "") => rangeCall.result = ""
        /\ versions = <<"1.0", "2.0", "3.0">> =>
             /\ (rangeCall.sgen = "" /\ rangeCall.egen = "2")
                => rangeCall.result = "- 2.0"
             /\ (rangeCall.sgen = "1" /\ rangeCall.egen = "")
                => rangeCall.result = "1.0 -"
             /\ (rangeCall.sgen = "2" /\ rangeCall.egen = "3")
                => rangeCall.result = "2.0 - 3.0"

\* The call for the range from generation 2 to generation 3 of a project
\* with the versions 1.0, 2.0 and 3.0.
C7_Witness ==
    /\ lastOp = "versionRange"
    /\ versions = <<"1.0", "2.0", "3.0">>
    /\ rangeCall.sgen = "2" /\ rangeCall.egen = "3"
    /\ rangeCall.result = "2.0 - 3.0"

\* ------------------------------------------------------------------ .sip files

\* str.split(): the words of s, which blanks separate.
RECURSIVE SplitFrom(_, _, _, _)
SplitFrom(s, i, word, words) ==
    IF i > Len(s)
    THEN IF word = "" THEN words ELSE Append(words, word)
    ELSE IF SubSeq(s, i, i) = " "
    THEN SplitFrom(s, i + 1, "", IF word = "" THEN words ELSE Append(words, word))
    ELSE SplitFrom(s, i + 1, word \o SubSeq(s, i, i), words)

split(s) == SplitFrom(s, 1, "", <<>>)

\* sep.join(words)
RECURSIVE join(_, _)
join(sep, words) ==
    IF words = <<>> THEN ""
    ELSE IF Len(words) = 1 THEN words[1]
    ELSE words[1] \o sep \o join(sep, Tail(words))

\* The indentation step of a .sip file: _createIndentFile(self, pname, 4).
IndentStep == 4

RECURSIVE Spaces(_)
Spaces(n) == IF n <= 0 THEN "" ELSE " " \o Spaces(n - 1)

\* _IndentFile.__init__: the lines written, each with the element it was
\* written for (the path of indices that leads to it, <<>> for the header
\* file itself), and the flags of the file.
NewFile == [out |-> <<>>, nrindents |-> 0, blank |-> FALSE, suppressblank |-> FALSE]

\* _IndentFile.write(data, indent), data being the lines given, each ended
\* by a newline: a pending blank line first, then the lines.
Write(f, lines, indent, elem) ==
    IF lines = <<>> THEN f
    ELSE [f EXCEPT
            !.out = @ \o (IF f.blank THEN <<[text |-> "", elem |-> elem]>> ELSE <<>>)
                      \o [i \in 1..Len(lines) |->
                            [text |-> (IF indent THEN Spaces(IndentStep * f.nrindents)
                                       ELSE "") \o lines[i],
                             elem |-> elem]],
            !.blank = FALSE,
            !.suppressblank = FALSE]

\* _IndentFile.blank
blank(f) == IF ~f.suppressblank THEN [f EXCEPT !.blank = TRUE] ELSE f

\* _IndentFile.__iadd__(1)
Indent(f) == [f EXCEPT !.nrindents = @ + 1, !.suppressblank = TRUE]

\* A decrease that keeps the blank line asked for.
Dedent_KeepsBlank(f) == [f EXCEPT !.nrindents = @ - 1, !.suppressblank = FALSE]

\* _IndentFile.__isub__(1)
Dedent(f) == [f EXCEPT !.nrindents = @ - 1, !.blank = FALSE, !.suppressblank = FALSE]

\* Project._createSIPFile: the file with its standard header.
createSIPFile ==
    blank(Write(Write(NewFile,
                      <<"// h.sip generated by MetaSIP", "//",
                        "// This file is part of the M Python extension module.">>,
                      TRUE, <<>>),
                <<"">>, TRUE, <<>>))

IfLine(cond) == "%If (" \o cond \o ")"

\* A generator that skips what is retired as well.
SipSkipped_Retired(c) == c.status # "" \/ ~isCurrent(c)

\* The children that the loops of Code.sip and Class.sip pass over.
SipSkipped(c) == c.status # ""

\* A generator that tests the platforms before the versions.
WriteIfs_PlatformsFirst(f, c, vrange, p) ==
    LET f1 == IF c.platforms # ""
              THEN Write(f, <<IfLine(join(" || ", split(c.platforms)))>>, FALSE, p)
              ELSE f
        f2 == IF vrange # "" THEN Write(f1, <<IfLine(vrange)>>, FALSE, p) ELSE f1
    IN  IF c.features # ""
        THEN Write(f2, <<IfLine(join(" || ", split(c.features)))>>, FALSE, p)
        ELSE f2

\* The %If lines that a loop writes before a child.
WriteIfs(f, c, vrange, p) ==
    LET f1 == IF vrange # "" THEN Write(f, <<IfLine(vrange)>>, FALSE, p) ELSE f
        f2 == IF c.platforms # ""
              THEN Write(f1, <<IfLine(join(" || ", split(c.platforms)))>>, FALSE, p)
              ELSE f1
    IN  IF c.features # ""
        THEN Write(f2, <<IfLine(join(" || ", split(c.features)))>>, FALSE, p)
        ELSE f2

\* The %End lines that a loop writes after a child.
WriteEnds(f, c, vrange, p) ==
    LET f1 == IF c.features # "" THEN Write(f, <<"%End">>, FALSE, p) ELSE f
        f2 == IF c.platforms # "" THEN Write(f1, <<"%End">>, FALSE, p) ELSE f1
    IN  IF vrange # "" THEN Write(f2, <<"%End">>, FALSE, p) ELSE f2

\* A loop that takes every child for an Access.
IsAccess_Any(c) == TRUE

\* isinstance(c, Access)
IsAccess(c) ==
    c.kind \in {"Class", "Enum", "Constructor", "Destructor", "OperatorCast",
                "Method", "OperatorMethod", "Variable", "OpaqueClass", "ManualCode"}

\* The kinds that HeaderFile.sip writes a %ModuleCode directive for.
ModuleLevelKinds == {"Function", "OperatorFunction", "Variable", "Enum"}

\* sip() of each kind, the loop of Code.sip (CodeSip), the loop of Class.sip
\* (ClassLoop, access being the access of the section it is in) and what
\* both loops do for a child they do not pass over (WriteChild).  hf is the
\* header file and p the path of the element.
\* The loop of Enum.sip over the values, and Enum.sip.
RECURSIVE EnumLoop(_, _, _, _)
EnumLoop(f, values, j, p) ==
    IF j > Len(values) THEN f
    ELSE LET e == values[j]
             vrange == versionRange(versions, e.sgen, e.egen)
             f1 == IF vrange # ""
                   THEN Write(f, <<IfLine(vrange)>>, FALSE, Append(p, j)) ELSE f
             f2 == Write(f1, <<e.name \o sipAnnos(e) \o ",">>, TRUE, Append(p, j))
             f3 == IF vrange # "" THEN Write(f2, <<"%End">>, FALSE, Append(p, j)) ELSE f2
         IN  IF e.status # "" THEN EnumLoop(f, values, j + 1, p)
             ELSE EnumLoop(f3, values, j + 1, p)

EnumSip(f, c, p) ==
    LET f1 == Write(blank(f),
                    <<"enum" \o (IF c.name # "" THEN " " \o c.name ELSE "")
                             \o sipAnnos(c), "{">>, TRUE, p)
        f2 == EnumLoop(Indent(f1), c.content, 1, p)
    IN  blank(Write(Dedent(f2), <<"};">>, TRUE, p))

RECURSIVE ElemSip(_, _, _, _), ClassSip(_, _, _, _), ClassLoop(_, _, _, _, _, _),
          CodeSip(_, _, _, _, _), WriteChild(_, _, _, _)
WriteChild(f, c, hf, p) ==
    LET vrange == versionRange(versions, c.sgen, c.egen)
    IN  WriteEnds(ElemSip(WriteIfs(f, c, vrange, p), c, hf, p), c, vrange, p)

CodeSip(f, ccontent, i, hf, p) ==
    IF i > Len(ccontent) THEN f
    ELSE IF SipSkipped(ccontent[i]) THEN CodeSip(f, ccontent, i + 1, hf, p)
    ELSE CodeSip(WriteChild(f, ccontent[i], hf, Append(p, i)), ccontent, i + 1, hf, p)

ClassLoop(f, ccontent, i, access, hf, p) ==
    IF i > Len(ccontent) THEN f
    ELSE LET c == ccontent[i]
             change == IsAccess(c) /\ access # c.access
             astr == IF c.access # "" THEN c.access ELSE "public"
             fa == IF change
                   THEN Indent(Write(blank(Dedent(f)), <<astr \o ":">>, TRUE, p))
                   ELSE f
         IN  IF SipSkipped(c) THEN ClassLoop(f, ccontent, i + 1, access, hf, p)
             ELSE ClassLoop(WriteChild(fa, c, hf, Append(p, i)), ccontent, i + 1,
                            IF change THEN c.access ELSE access, hf, p)

ClassSip(f, c, hf, p) ==
    IF c.status # "" THEN f
    ELSE LET tname == IF c.struct THEN "struct " ELSE "class "
             f1 == Write(blank(f), <<tname \o c.name \o sipAnnos(c), "{">>, TRUE, p)
             f2 == Write(f1, <<"%TypeHeaderCode">>, FALSE, p)
             f3 == Write(f2, <<"#include <" \o hf.name \o ">">>, FALSE, p)
             f4 == blank(Write(f3, <<"%End">>, FALSE, p))
             f5 == ClassLoop(Indent(f4), c.content, 1,
                             IF c.struct THEN "" ELSE "private", hf, p)
         IN  blank(Write(Dedent(f5), <<"};">>, TRUE, p))

ElemSip(f, c, hf, p) ==
    CASE c.kind = "Class" -> ClassSip(f, c, hf, p)
      [] c.kind = "Enum" -> EnumSip(f, c, p)
      [] c.kind = "ManualCode" ->
            IF SubSeq(c.name, 1, 1) = "%"
            THEN Write(f, <<c.name>>, FALSE, p)
            ELSE Write(f, <<c.name \o ";">>, TRUE, p)
      [] OTHER -> Write(f, <<c.name \o "()" \o sipAnnos(c) \o ";">>, TRUE, p)

\* HeaderFile.sip
HeaderFileSip(f, hf, hcontent) ==
    IF hf.status # "" THEN f
    ELSE LET needed == \E i \in 1..Len(hcontent) :
                          ~SipSkipped(hcontent[i]) /\ hcontent[i].kind \in ModuleLevelKinds
             vrange == versionRange(versions, hf.sgen, hf.egen)
             f1 == IF vrange # "" THEN Write(f, <<IfLine(vrange)>>, FALSE, <<>>) ELSE f
             f2 == Write(f1, <<"%ModuleCode", "#include <" \o hf.name \o ">", "%End">>,
                         TRUE, <<>>)
             f3 == IF vrange # "" THEN Write(f2, <<"%End">>, FALSE, <<>>) ELSE f2
         IN  blank(CodeSip(IF needed THEN blank(f3) ELSE f, hcontent, 1, hf, <<>>))

\* The header file of the module that is generated.
SipHeaderFile == [name |-> "h.h", status |-> "", sgen |-> "1", egen |-> ""]

\* The elements of a project that the user has worked on: any status, any
\* generations of the project, platforms and features.
Tagged(e) ==
    {[e EXCEPT !.status = st, !.sgen = g[1], !.egen = g[2],
               !.platforms = pl, !.features = ft] :
        st \in {"", "ignored"},
        g \in {<<"", "">>, <<"1", "">>, <<"1", "2">>, <<"", "2">>},
        pl \in {"", "Linux macOS"},
        ft \in {"", "Feat"}}

SipMethods == Tagged(Elem("Method", "m", "public", <<>>))
SipFunctions == Tagged(Elem("Function", "f", "", <<>>))
SipClasses ==
    UNION {Tagged(Elem("Class", "K", "", sub)) : sub \in SeqsUpTo(SipMethods, 1)}
SipTrees ==
    {<<>>}
    \cup {<<e>> : e \in SipFunctions \cup SipClasses}
    \cup {<<k, e>> : k \in Tagged(Elem("Class", "K", "", <<>>)), e \in SipFunctions}

\* A project of two versions with a header file of checked code.
InitSip ==
    /\ versions = <<"1.0", "2.0">>
    /\ generation = 2
    /\ dirty = FALSE
    /\ hfExists = TRUE
    /\ content \in SipTrees
    /\ pre = <<>>
    /\ preDirty = FALSE
    /\ lastParsed = <<>>
    /\ repeated = FALSE
    /\ calls = <<>>
    /\ CallsIdle
    /\ FilesIdle
    /\ lastOp = "init"

\* Project.generateModule for a module of the one header file: the .sip
\* file of the header file.
generateModule ==
    /\ sipFile' = HeaderFileSip(createSIPFile, SipHeaderFile, content)
    /\ lastOp' = "generateModule"
    /\ UNCHANGED <<treeVars, rangeCall, apiCall, sigCall, saveCall, loadCall>>
    /\ UNCHANGED fileVars

\* helpers.version_range: a range of versions as the condition of an %If.
version_range(vr) ==
    IF vr.startversion = ""
    THEN "- " \o vr.endversion
    ELSE IF vr.endversion = "" THEN vr.startversion \o " -"
    ELSE vr.startversion \o " - " \o vr.endversion

\* BaseApiAdapter.version_start: the output and the number of %End needed.
RECURSIVE FeatureIfs(_)
FeatureIfs(features) ==
    IF features = <<>> THEN <<>>
    ELSE <<IfLine(Head(features))>> \o FeatureIfs(Tail(features))

version_start(output, api) ==
    LET v == [i \in 1..Len(api.versions) |-> IfLine(version_range(api.versions[i]))]
        pl == IF Len(api.platforms) # 0
              THEN <<IfLine(join(" || ", api.platforms))>>
              ELSE <<>>
        ft == FeatureIfs(api.features)
    IN  [output |-> output \o v \o pl \o ft,
         nr_ends |-> Len(v) + Len(pl) + Len(ft)]

\* BaseApiAdapter.version_end
RECURSIVE version_end(_, _)
version_end(nr_ends, output) ==
    IF nr_ends = 0 THEN output ELSE version_end(nr_ends - 1, Append(output, "%End"))

\* The API items of the adapters.
ApiVersions == {[startversion |-> "1.0", endversion |-> "2.0"],
                [startversion |-> "3.0", endversion |-> ""]}
Apis ==
    [versions : SeqsUpTo(ApiVersions, 2),
     platforms : {<<>>, <<"Linux">>, <<"Linux", "macOS">>},
     features : {<<>>, <<"F1">>, <<"F1", "F2">>}]

\* generate_sip of an adapter: the version tests around the API item.  The
\* adapters write from models of their own, so they are followed where the
\* header file holds no code of this model.
generate_sip ==
    /\ content = <<>>
    /\ \E api \in Apis :
         LET s == version_start(<<>>, api)
         IN  apiCall' = [api |-> api, nr_ends |-> s.nr_ends,
                         output |-> version_end(s.nr_ends, Append(s.output, "api;"))]
    /\ lastOp' = "generate_sip"
    /\ UNCHANGED <<treeVars, rangeCall, sipFile, sigCall, saveCall, loadCall>>
    /\ UNCHANGED fileVars

NextSip ==
    \/ generateModule
    \/ generate_sip

SpecSip == InitSip /\ [][NextSip]_vars

\* ------------------------------------------------------------------ claims on .sip files

\* The paths of the elements of a tree, and the element at a path.
RECURSIVE PathsOf(_, _)
PathsOf(c, p) ==
    UNION {{Append(p, i)} \cup PathsOf(c[i].content, Append(p, i)) : i \in 1..Len(c)}

RECURSIVE ElemAt(_, _)
ElemAt(c, p) == IF Len(p) = 1 THEN c[p[1]] ELSE ElemAt(c[p[1]].content, Tail(p))

IsPrefix(p, q) == Len(p) <= Len(q) /\ SubSeq(q, 1, Len(p)) = p

\* The status of the element at p and of all that enclose it is empty.
Checked(p) == \A k \in 1..Len(p) : ElemAt(content, SubSeq(p, 1, k)).status = ""

\* The lines of the file written for the element at p or for one inside it.
LinesFor(p) == {i \in 1..Len(sipFile.out) : IsPrefix(p, sipFile.out[i].elem)}

\* Those of them that are not blank, in the order of the file.
BlockOf(p) ==
    LET idx == LinesFor(p)
        a == CHOOSE i \in idx : \A j \in idx : i <= j
        b == CHOOSE i \in idx : \A j \in idx : j <= i
    IN  SelectSeq([k \in 1..(b - a + 1) |-> a + k - 1],
                  LAMBDA i : i \in idx /\ sipFile.out[i].text # "")

IsIf(text) == Len(text) >= 5 /\ SubSeq(text, 1, 5) = "%If ("
Opens(text) == IsIf(text) \/ text \in {"%TypeHeaderCode", "%ModuleCode"}

\* The number of blocks open after line k of the file.
Depth(k) ==
    LET d[i \in 0..k] ==
            IF i = 0 THEN 0
            ELSE d[i - 1] + (IF Opens(sipFile.out[i].text) THEN 1 ELSE 0)
                          - (IF sipFile.out[i].text = "%End" THEN 1 ELSE 0)
    IN  d[k]

\* The %End at line c closes the block that line o opens.
Closes(o, c) ==
    /\ sipFile.out[c].text = "%End"
    /\ Depth(c) = Depth(o - 1)
    /\ \A k \in o..(c - 1) : Depth(k) > Depth(o - 1)

\* The conditions that the tags of an element ask for, in the order version
\* range, platforms, features, a tag that is empty asking for none.
CondsOf(e) ==
    (IF e.sgen # "" \/ e.egen # ""
     THEN <<IfLine(versionRange(versions, e.sgen, e.egen))>> ELSE <<>>)
    \o (IF e.platforms = "Linux macOS" THEN <<"%If (Linux || macOS)">>
        ELSE IF e.platforms # "" THEN <<IfLine(e.platforms)>> ELSE <<>>)
    \o (IF e.features # "" THEN <<IfLine(e.features)>> ELSE <<>>)

\* The lines written for the element at p are one run of lines: an %If for
\* each condition its tags ask for, then its declaration, at the end an
\* %End for each %If, the last %End closing the first %If.
Nested(p) ==
    LET e == ElemAt(content, p)
        conds == CondsOf(e)
        n == Len(conds)
        idx == LinesFor(p)
        I == BlockOf(p)
        L == Len(I)
    IN  /\ idx # {}
        /\ \A i \in idx, j \in idx : \A k \in i..j : k \in idx
        /\ L >= 2 * n + 1
        /\ \A j \in 1..n : sipFile.out[I[j]].text = conds[j]
        /\ sipFile.out[I[n + 1]].elem = p
        /\ ~IsIf(sipFile.out[I[n + 1]].text)
        /\ sipFile.out[I[n + 1]].text # "%End"
        /\ \A j \in 1..n : Closes(I[j], I[L - j + 1])
        /\ Cardinality({i \in idx : sipFile.out[i].elem = p
                                    /\ IsIf(sipFile.out[i].text)}) = n
        /\ Depth(I[1] - 1) = Depth(I[L])

\* C8: every child that is written has, in this order, the %If of its
\* version range, of its platforms (joined with ' || ') and of its features,
\* then its declaration, then an %End for each %If, closing them in reverse
\* order; an empty tag has neither %If nor %End, and the blocks of the file
\* are balanced.  The adapters write the same around an API item, with one
\* %If for each version range and for each feature.
C8_ConditionalNesting ==
    /\ lastOp = "generateModule" =>
         /\ \A p \in PathsOf(content, <<>>) : Checked(p) => Nested(p)
         /\ \A k \in 1..Len(sipFile.out) : Depth(k) >= 0
         /\ Depth(Len(sipFile.out)) = 0
    /\ lastOp = "generate_sip" =>
         LET o == apiCall.output
             a == apiCall.api
             nv == Len(a.versions)
             np == IF a.platforms = <<>> THEN 0 ELSE 1
             nf == Len(a.features)
             n == nv + np + nf
         IN  /\ Len(o) = 2 * n + 1
             /\ \A j \in 1..nv : o[j] = IfLine(version_range(a.versions[j]))
             /\ a.platforms = <<"Linux">> => o[nv + 1] = "%If (Linux)"
             /\ a.platforms = <<"Linux", "macOS">> => o[nv + 1] = "%If (Linux || macOS)"
             /\ \A j \in 1..nf : o[nv + np + j] = IfLine(a.features[j])
             /\ o[n + 1] = "api;"
             /\ \A j \in (n + 2)..Len(o) : o[j] = "%End"

\* A method with a version range, two platforms and a feature, written in a
\* class: the three %If lines, the method, the three %End lines.
C8_Witness ==
    /\ lastOp = "generateModule"
    /\ \E i \in 1..Len(sipFile.out) :
         /\ i + 6 <= Len(sipFile.out)
         /\ [k \in 1..7 |-> sipFile.out[i + k - 1].text]
            = <<"%If (1.0 - 2.0)", "%If (Linux || macOS)", "%If (Feat)",
                "    m();", "%End", "%End", "%End">>
         /\ sipFile.out[i].elem = <<1, 1>>

\* C9 as claimed: a declaration that is retired and a declaration that has
\* a status produce no output.
C9_OnlyCurrentEmitted ==
    lastOp = "generateModule" =>
        \A p \in PathsOf(content, <<>>) :
            LinesFor(p) # {}
            => /\ ElemAt(content, p).egen = ""
               /\ ElemAt(content, p).status = ""

\* C9 as amended: a declaration is written exactly when its status and that
\* of every element enclosing it is empty, whether it is current or not; a
\* retired one is written inside the %If of its version range.
C9_OnlyCheckedEmitted ==
    lastOp = "generateModule" =>
        \A p \in PathsOf(content, <<>>) :
            /\ LinesFor(p) # {} <=> Checked(p)
            /\ (Checked(p) /\ ElemAt(content, p).egen # "")
               => sipFile.out[BlockOf(p)[1]].text
                  = IfLine(versionRange(versions, ElemAt(content, p).sgen,
                                        ElemAt(content, p).egen))

\* A file for a class with a status and a retired function without one: the
\* function is written, the class is not.
C9_Witness ==
    /\ lastOp = "generateModule"
    /\ Len(content) = 2
    /\ content[1].status # "" /\ LinesFor(<<1>>) = {}
    /\ content[2].status = "" /\ content[2].egen = "2" /\ content[2].sgen = "1"
    /\ \E i \in LinesFor(<<2>>) : sipFile.out[i].text = "f();"
    /\ \E i \in LinesFor(<<2>>) : sipFile.out[i].text = "%If (1.0 - 2.0)"

\* ------------------------------------------------------------------ argument signatures

\* str.replace(old, new): every occurrence of old, from the left.
RECURSIVE ReplaceFrom(_, _, _, _)
ReplaceFrom(s, i, old, new) ==
    IF i > Len(s) THEN ""
    ELSE IF i + Len(old) - 1 <= Len(s) /\ SubSeq(s, i, i + Len(old) - 1) = old
    THEN new \o ReplaceFrom(s, i + Len(old), old, new)
    ELSE SubSeq(s, i, i) \o ReplaceFrom(s, i + 1, old, new)

replace(s, old, new) == ReplaceFrom(s, 1, old, new)

\* old in s
Contains(s, old) ==
    \E i \in 1..Len(s) :
        i + Len(old) - 1 <= Len(s) /\ SubSeq(s, i, i + Len(old) - 1) = old

\* s[-1]
LastChar(s) == SubSeq(s, Len(s), Len(s))

\* _expandType(typ, name), without ignored namespaces.
expandType(typ, name) ==
    IF typ = "" THEN ""
    ELSE LET t == replace(typ, "long int", "long")
         IN  IF Contains(t, "%s") THEN replace(t, "%s", name)
             ELSE IF name # ""
             THEN t \o (IF LastChar(t) \notin {"&", "*"} THEN " " ELSE "") \o name
             ELSE t

\* Argument.user
Argument_user(a) ==
    LET s == expandType(a.type, "")
        n == IF a.name # ""
             THEN s \o (IF LastChar(s) \notin {"&", "*"} THEN " " ELSE "") \o a.name
             ELSE s
    IN  IF a.default # "" THEN n \o " = " \o a.default ELSE n

\* A signature that is the user friendly representation, as Code.signature is.
Argument_signature_User(a) == Argument_user(a)

\* Argument.signature
Argument_signature(a) ==
    LET s == expandType(a.type, "")
    IN  IF a.default # "" THEN s \o " = " \o a.default ELSE s

\* The arguments that the parser makes.
ArgTypes == {"int", "long int", "unsigned long int", "const QString &",
             "const QString&", "const QString  &", "void (*%s)(int)"}
Arguments == [type : ArgTypes, name : {"", "name", "other"}, default : {"", "0", "1"}]

\* Two arguments to compare, and no call yet.
InitSig ==
    /\ versions = <<>>
    /\ generation = 0
    /\ dirty = FALSE
    /\ hfExists = FALSE
    /\ content = <<>>
    /\ pre = <<>>
    /\ preDirty = FALSE
    /\ lastParsed = <<>>
    /\ repeated = FALSE
    /\ calls = <<>>
    /\ rangeCall = NoCall
    /\ sipFile = NoCall
    /\ apiCall = NoCall
    /\ sigCall \in [a : Arguments, b : Arguments]
    /\ saveCall = NoCall
    /\ loadCall = NoCall
    /\ FilesIdle
    /\ lastOp = "init"

\* The signatures of the two arguments are taken.
callSignature ==
    /\ sigCall' = [a |-> sigCall.a, b |-> sigCall.b,
                   sa |-> Argument_signature(sigCall.a),
                   sb |-> Argument_signature(sigCall.b)]
    /\ lastOp' = "signature"
    /\ UNCHANGED <<treeVars, rangeCall, sipFile, apiCall, saveCall, loadCall>>
    /\ UNCHANGED fileVars

NextSig == callSignature

SpecSig == InitSig /\ [][NextSig]_vars

\* A type without its blanks.
RECURSIVE Unspaced(_)
Unspaced(s) ==
    IF s = "" THEN ""
    ELSE (IF SubSeq(s, 1, 1) = " " THEN "" ELSE SubSeq(s, 1, 1))
         \o Unspaced(SubSeq(s, 2, Len(s)))

None == "<None>"

\* escape(s): saxutils.escape with the double quote as a further entity.
RECURSIVE escape(_)
escape(s) ==
    IF s = "" THEN ""
    ELSE LET c == SubSeq(s, 1, 1)
         IN  (CASE c = "&" -> "&amp;"
                [] c = "<" -> "&lt;"
                [] c = ">" -> "&gt;"
                [] c = "\"" -> "&quot;"
                [] OTHER -> c)
             \o escape(SubSeq(s, 2, Len(s)))

\* The entities that the XML reader knows.
Entities == {<<"&lt;", "<">>, <<"&gt;", ">">>, <<"&quot;", "\"">>, <<"&amp;", "&">>}

\* The entity that the text starts with at i, if any.
EntityAt(s, i) ==
    {en \in Entities : /\ i + Len(en[1]) - 1 <= Len(s)
                       /\ SubSeq(s, i, i + Len(en[1]) - 1) = en[1]}

\* What the XML reader makes of the text of an attribute value or of an
\* element as it is written in the file: not well-formed with a bare '&' or
\* '<' (or a bare double quote in an attribute value), else the text with
\* its entities replaced.
RECURSIVE WellFormedFrom(_, _, _), UnescapeFrom(_, _)
WellFormedFrom(s, i, quoted) ==
    IF i > Len(s) THEN TRUE
    ELSE LET c == SubSeq(s, i, i)
         IN  IF c = "&"
             THEN /\ EntityAt(s, i) # {}
                  /\ WellFormedFrom(s, i + Len((CHOOSE en \in EntityAt(s, i) : TRUE)[1]),
                                    quoted)
             ELSE /\ c # "<"
                  /\ ~(quoted /\ c = "\"")
                  /\ WellFormedFrom(s, i + 1, quoted)

UnescapeFrom(s, i) ==
    IF i > Len(s) THEN ""
    ELSE IF EntityAt(s, i) # {}
    THEN LET en == CHOOSE en \in EntityAt(s, i) : TRUE
         IN  en[2] \o UnescapeFrom(s, i + Len(en[1]))
    ELSE SubSeq(s, i, i) \o UnescapeFrom(s, i + 1)

\* str.strip()
IsSpace(c) == c \in {" ", "\n", "\t"}
RECURSIVE strip(_)
strip(s) ==
    IF s = "" THEN ""
    ELSE IF IsSpace(SubSeq(s, 1, 1)) THEN strip(SubSeq(s, 2, Len(s)))
    ELSE IF IsSpace(SubSeq(s, Len(s), Len(s))) THEN strip(SubSeq(s, 1, Len(s) - 1))
    ELSE s

\* An attribute of an element, if the value is not empty; no attribute.
NoAttrs == [n \in {} |-> ""]
Attr(name, value) == IF value # "" THEN name :> value ELSE NoAttrs

\* ProjectElement.xmlAttributes: raised is set where escape is given None.
ProjectElement_xmlAttributes(e) ==
    IF e.annos = None
    THEN [raised |-> TRUE, attrs |-> NoAttrs]
    ELSE [raised |-> FALSE,
          attrs |-> Attr("annos", escape(e.annos)) @@ Attr("status", e.status)
                    @@ Attr("sgen", e.sgen) @@ Attr("egen", e.egen)]

\* Code.xmlAttributes
Code_xmlAttributes(e) ==
    LET s == ProjectElement_xmlAttributes(e)
    IN  IF s.raised THEN s
        ELSE [s EXCEPT !.attrs = @ @@ Attr("platforms", e.platforms)
                                   @@ Attr("features", e.features)]

\* HeaderFile.xmlAttributes
HeaderFile_xmlAttributes(hf) ==
    LET s == Code_xmlAttributes(hf)
    IN  IF s.raised THEN s
        ELSE [s EXCEPT !.attrs = @ @@ ("id" :> hf.id) @@ ("name" :> hf.name)
                                   @@ ("md5" :> hf.md5) @@ Attr("parse", hf.parse)]

\* _writeLiteralXML: the text of the Literal element.
writeLiteralXML(text) == "\n" \o escape(text) \o "\n"

\* The ids that Project.save gives to the header files: '%u' of 0, 1, ...
HfIds == <<"0", "1", "2", "3">>

\* The header files in the order in which Project.save comes to them,
\* header directory after header directory: the place <<d, i>> is the
\* i-th header file of the d-th header directory.
RECURSIVE PlacesFrom(_, _)
PlacesFrom(hdirs, d) ==
    IF d > Len(hdirs) THEN <<>>
    ELSE [i \in 1..Len(hdirs[d].content) |-> <<d, i>>] \o PlacesFrom(hdirs, d + 1)

\* Project.save: the elements written, with the text of their attributes
\* as it is in the file, or the exception raised, and the project with the
\* ids that the save has set.  The header files are written before the
\* modules; 'for hf in mod' is reached for every module and raises, a Module
\* being no sequence.
Save(p) ==
    LET places == PlacesFrom(p.headers, 1)
        numbered == [k \in 1..Len(places) |->
                        [p.headers[places[k][1]].content[places[k][2]]
                            EXCEPT !.id = HfIds[k]]]
        written == [k \in 1..Len(places) |-> HeaderFile_xmlAttributes(numbered[k])]
        bad == {k \in 1..Len(places) : written[k].raised}
        last == IF bad = {} THEN Len(places)
                ELSE CHOOSE k \in bad : \A o \in bad : k <= o
        at(d, i) == CHOOSE k \in 1..Len(places) : places[k] = <<d, i>>
        project ==
            [p EXCEPT !.headers =
                [d \in 1..Len(p.headers) |->
                    [p.headers[d] EXCEPT !.content =
                        [i \in 1..Len(p.headers[d].content) |->
                            IF at(d, i) <= last THEN numbered[at(d, i)]
                            ELSE p.headers[d].content[i]]]]]
    IN  IF bad # {}
        THEN [ok |-> FALSE, raised |-> "AttributeError", project |-> project]
        ELSE IF p.modules # <<>>
        THEN [ok |-> FALSE, raised |-> "TypeError", project |-> project]
        ELSE [ok |-> TRUE, raised |-> "", project |-> project,
              file |-> [attrs |-> Attr("versions", join(" ", p.versions))
                                  @@ ("inputdir" :> p.inputdir),
                        literals |-> IF p.sipcomments # ""
                                     THEN "sipcomments" :> writeLiteralXML(p.sipcomments)
                                     ELSE NoAttrs,
                        headers |->
                          [d \in 1..Len(p.headers) |->
                             [attrs |-> ("name" :> p.headers[d].name)
                                        @@ ("parserargs" :> p.headers[d].parserargs),
                              headerfiles |->
                                [i \in 1..Len(p.headers[d].content) |->
                                    written[at(d, i)].attrs]]],
                        modules |-> <<>>]]

\* BaseAdapter.load for an attribute of type STRING, STRING_LIST and LITERAL.
LoadString(attrs, name) ==
    IF name \in DOMAIN attrs THEN UnescapeFrom(attrs[name], 1) ELSE ""
LoadStringList(attrs, name) == split(LoadString(attrs, name))
LoadLiteral(literals, name) ==
    IF name \in DOMAIN literals THEN strip(UnescapeFrom(literals[name], 1)) ELSE ""

\* The attribute values of the file, element after element.
RECURSIVE ValuesOf(_, _)
ValuesOf(elements, i) ==
    IF i > Len(elements) THEN <<>>
    ELSE LET names == DOMAIN elements[i]
             RECURSIVE listed(_)
             listed(todo) ==
                 IF todo = {} THEN <<>>
                 ELSE LET n == CHOOSE n \in todo : TRUE
                      IN  <<elements[i][n]>> \o listed(todo \ {n})
         IN  listed(names) \o ValuesOf(elements, i + 1)

RECURSIVE HeaderFileElements(_, _)
HeaderFileElements(file, d) ==
    IF d > Len(file.headers) THEN <<>>
    ELSE file.headers[d].headerfiles \o HeaderFileElements(file, d + 1)

AttributeValues(file) ==
    ValuesOf(<<file.attrs>>, 1)
    \o ValuesOf([d \in 1..Len(file.headers) |-> file.headers[d].attrs], 1)
    \o ValuesOf(HeaderFileElements(file, 1), 1)

\* The file is well-formed XML.
WellFormed(file) ==
    /\ \A k \in 1..Len(AttributeValues(file)) :
           WellFormedFrom(AttributeValues(file)[k], 1, TRUE)
    /\ \A n \in DOMAIN file.literals : WellFormedFrom(file.literals[n], 1, FALSE)

\* Project.load: the project read from the file, each attribute loaded as
\* BaseAdapter.load loads it.  A file that Project.save has finished holds
\* no Module element.
Load(file) ==
    IF ~WellFormed(file) THEN [ok |-> FALSE]
    ELSE [ok |-> TRUE,
          project |->
            [versions |-> LoadStringList(file.attrs, "versions"),
             inputdir |-> LoadString(file.attrs, "inputdir"),
             sipcomments |-> LoadLiteral(file.literals, "sipcomments"),
             headers |->
               [d \in 1..Len(file.headers) |->
                  [name |-> LoadString(file.headers[d].attrs, "name"),
                   parserargs |-> LoadString(file.headers[d].attrs, "parserargs"),
                   content |->
                     [i \in 1..Len(file.headers[d].headerfiles) |->
                        [n \in {"id", "name", "md5", "parse", "status", "sgen",
                                "egen", "annos", "platforms", "features"} |->
                            LoadString(file.headers[d].headerfiles[i], n)]]]],
             modules |-> <<>>]]

\* HeaderDirectory.newHeaderFile as _scanHeaderFile calls it: the header
\* file that a scan adds to the project.
ScannedHeaderFile ==
    [id |-> None, name |-> "a.h", md5 |-> "d41d8cd9", parse |-> "needed",
     status |-> "unknown", sgen |-> "1", egen |-> "",
     annos |-> None, platforms |-> None, features |-> None]

\* A header directory of the project.
Directory(name, parserargs, hfs) ==
    [name |-> name, parserargs |-> parserargs, content |-> hfs]

\* The projects that are saved.
Projects ==
    [versions : {<<"1.0">>, <<"1.0", "2.0">>},
     inputdir : {"", "/usr/include", "/src/R&D"},
     sipcomments : {"", "Copyright (c) A", "  indented", "a < b & c", "line\n"},
     headers : {<<>>, <<Directory("include", "", <<ScannedHeaderFile>>)>>},
     modules : {<<>>}]

\* A project in memory, neither saved nor loaded yet.
InitRT ==
    /\ versions = <<>>
    /\ generation = 0
    /\ dirty = FALSE
    /\ hfExists = FALSE
    /\ content = <<>>
    /\ pre = <<>>
    /\ preDirty = FALSE
    /\ lastParsed = <<>>
    /\ repeated = FALSE
    /\ calls = <<>>
    /\ rangeCall = NoCall
    /\ sipFile = NoCall
    /\ apiCall = NoCall
    /\ sigCall = NoCall
    /\ saveCall \in [project : Projects]
    /\ loadCall = NoCall
    /\ FilesIdle
    /\ lastOp = "init"

\* Project.save
save ==
    /\ saveCall' = [project |-> Save(saveCall.project).project,
                    result |-> Save(saveCall.project)]
    /\ loadCall' = NoCall
    /\ lastOp' = "save"
    /\ UNCHANGED <<treeVars, rangeCall, sipFile, apiCall, sigCall>>
    /\ UNCHANGED fileVars

\* Project.load of the file that the save has written.
load ==
    /\ lastOp = "save"
    /\ saveCall.result.ok
    /\ loadCall' = Load(saveCall.result.file)
    /\ lastOp' = "load"
    /\ UNCHANGED <<treeVars, rangeCall, sipFile, apiCall, sigCall, saveCall>>
    /\ UNCHANGED fileVars

NextRT ==
    \/ save
    \/ load

SpecRT == InitRT /\ [][NextRT]_vars

\* A project without the ids of its header files.
WithoutIds(p) ==
    [p EXCEPT !.headers =
        [d \in 1..Len(p.headers) |->
            [p.headers[d] EXCEPT !.content =
                [i \in 1..Len(p.headers[d].content) |->
                    [p.headers[d].content[i] EXCEPT !.id = ""]]]]]

\* C6: Project.save writes every valid project, and Project.load of what it
\* has written gives a project equal to the saved one in every field, the
\* ids of the header files aside.
C6_RoundTrip ==
    /\ lastOp = "save" => saveCall.result.ok
    /\ lastOp = "load" =>
         /\ loadCall.ok
         /\ WithoutIds(loadCall.project) = WithoutIds(saveCall.project)

\* ------------------------------------------------------------------ the saved ids and attributes

\* A header file as Project.load leaves it: every attribute a string, the
\* id the one that the file read gave to it.
LoadedHeaderFile(id, name, annos) ==
    [id |-> id, name |-> name, md5 |-> "d41d8cd9", parse |-> "",
     status |-> "", sgen |-> "1", egen |-> "",
     annos |-> annos, platforms |-> "", features |-> ""]

\* A module of the project: content holds the header files of the module,
\* each the object at a place of the header directories.
Module(name, hfs) == [name |-> name, content |-> hfs]

\* The arguments for the parser of a header directory.
SavedParserArgs == {"", "-DLIB=\"qt\""}

\* The header directories of the projects saved: the ids that the header
\* files have from the file read are in order, out of order, repeated or
\* missing.
SavedHeaders ==
    {<<>>}
    \cup {<<Directory("include", a, <<LoadedHeaderFile("0", "a.h", "")>>)>> :
            a \in SavedParserArgs}
    \cup {<<Directory("include", a, <<LoadedHeaderFile("1", "a.h", "Doc=\"a\""),
                                      LoadedHeaderFile("0", "b.h", "")>>)>> :
            a \in SavedParserArgs}
    \cup {<<Directory("include", a, <<LoadedHeaderFile("0", "a.h", "")>>),
            Directory("src", "", <<LoadedHeaderFile("0", "b.h", ""),
                                   LoadedHeaderFile("3", "c.h", "")>>)>> :
            a \in SavedParserArgs}
    \cup {<<Directory("empty", a, <<>>),
            Directory("src", "", <<LoadedHeaderFile("2", "b.h", ""),
                                   LoadedHeaderFile("", "c.h", "")>>)>> :
            a \in SavedParserArgs}

\* The modules of a project with these header directories: none, one
\* without header files, one with all of them, two that share them out.
SavedModules(hdirs) ==
    LET places == PlacesFrom(hdirs, 1)
    IN  {<<>>, <<Module("core", <<>>)>>, <<Module("core", places)>>}
        \cup IF Len(places) < 2 THEN {}
             ELSE {<<Module("core", SubSeq(places, 2, Len(places))),
                     Module("gui", SubSeq(places, 1, 1))>>}

\* The projects saved.
SavedProjects ==
    UNION {{[versions |-> <<"1.0">>, inputdir |-> dir, sipcomments |-> "",
             headers |-> hdirs, modules |-> mods] :
                dir \in {"/usr/include", "/opt/\"qt\"/include"},
                mods \in SavedModules(hdirs)} : hdirs \in SavedHeaders}

\* A project that has been loaded.
InitSave ==
    /\ versions = <<>>
    /\ generation = 0
    /\ dirty = FALSE
    /\ hfExists = FALSE
    /\ content = <<>>
    /\ pre = <<>>
    /\ preDirty = FALSE
    /\ lastParsed = <<>>
    /\ repeated = FALSE
    /\ calls = <<>>
    /\ rangeCall = NoCall
    /\ sipFile = NoCall
    /\ apiCall = NoCall
    /\ sigCall = NoCall
    /\ saveCall \in [project : SavedProjects]
    /\ loadCall = NoCall
    /\ FilesIdle
    /\ lastOp = "init"

NextSave ==
    \/ save
    \/ load

SpecSave == InitSave /\ [][NextSave]_vars

\* The id written for the header file at a place of the header directories.
IdWritten(file, place) == file.headers[place[1]].headerfiles[place[2]].id

\* C22: every save writes the project file, numbers the HeaderFile elements
\* 0, 1, ... in the order of the header directories and of their header
\* files, whatever ids the header files had, and writes for every header
\* file of every module a ModuleHeaderFile with the id written for that
\* header file.
C22_HeaderFileIds ==
    lastOp = "save" =>
      /\ saveCall.result.ok
      /\ LET file == saveCall.result.file
             hfs == HeaderFileElements(file, 1)
             mods == saveCall.project.modules
         IN  /\ \A k \in 1..Len(hfs) : hfs[k].id = HfIds[k]
             /\ Len(file.modules) = Len(mods)
             /\ \A m \in 1..Len(mods) :
                  /\ Len(file.modules[m].ids) = Len(mods[m].content)
                  /\ \A k \in 1..Len(mods[m].content) :
                       file.modules[m].ids[k] = IdWritten(file, mods[m].content[k])

\* The text holds no double quote.
NoQuote(s) == \A i \in 1..Len(s) : SubSeq(s, i, i) # "\""

MergedKinds == {"Class", "Function", "Method", "Constructor", "Destructor",
                "OperatorMethod", "OperatorCast", "OperatorFunction", "Enum",
                "Variable", "Typedef", "Namespace", "OpaqueClass"}

\* What an element carries besides its declaration: the annotations, the
\* generations, the platforms and features, the docstring and the manual
\* code (%MethodCode and the like).
Payloads ==
    [annos : {"", "NoSetter"}, sgen : {"", "1"}, egen : {"", "2"},
     platforms : {"", "Linux"}, features : {"", "Thread"},
     docstring : {"", "text"}, code : {"", "code"}]

NoPayload ==
    [annos |-> "", sgen |-> "", egen |-> "", platforms |-> "", features |-> "",
     docstring |-> "", code |-> ""]

AllPayload ==
    [annos |-> "NoSetter", sgen |-> "1", egen |-> "2", platforms |-> "Linux",
     features |-> "Thread", docstring |-> "text", code |-> "code"]

\* An element of a kind, with a declaration and a payload.
Declared(kind, n, access, p) ==
    [kind |-> kind, name |-> n, access |-> access,
     platforms |-> p.platforms, features |-> p.features, annos |-> p.annos,
     status |-> "", sgen |-> p.sgen, egen |-> p.egen, content |-> <<>>,
     docstring |-> p.docstring, code |-> p.code]

\* The pairs of elements to compare: the first with no payload or with all
\* of it, the second with any payload.
DeclaredPairs ==
    {[a |-> Declared(k, "x", acc, p), b |-> Declared(k, n, acc, q)] :
        k \in MergedKinds, n \in {"x", "y"}, acc \in {"", "protected"},
        p \in {NoPayload, AllPayload}, q \in Payloads}

\* Two elements to compare, and no call yet.
InitPayload ==
    /\ versions = <<>>
    /\ generation = 0
    /\ dirty = FALSE
    /\ hfExists = FALSE
    /\ content = <<>>
    /\ pre = <<>>
    /\ preDirty = FALSE
    /\ lastParsed = <<>>
    /\ repeated = FALSE
    /\ calls = <<>>
    /\ rangeCall = NoCall
    /\ sipFile = NoCall
    /\ apiCall = NoCall
    /\ sigCall \in DeclaredPairs
    /\ saveCall = NoCall
    /\ loadCall = NoCall
    /\ FilesIdle
    /\ lastOp = "init"

\* The signatures of the two elements are taken, as _mergeCode takes them.
callCodeSignature ==
    /\ lastOp = "init"
    /\ sigCall' = [a |-> sigCall.a, b |-> sigCall.b,
                   sa |-> signature(sigCall.a),
                   sb |-> signature(sigCall.b)]
    /\ lastOp' = "codeSignature"
    /\ UNCHANGED <<treeVars, rangeCall, sipFile, apiCall, saveCall, loadCall>>
    /\ UNCHANGED fileVars

NextPayload == callCodeSignature

SpecPayload == InitPayload /\ [][NextPayload]_vars

\* Two elements differ in their payload at most.
SameButPayload(a, b) ==
    /\ a.kind = b.kind /\ a.name = b.name /\ a.access = b.access
    /\ a.status = b.status /\ a.content = b.content

\* C11: two elements of a kind that takes part in the merge that differ only
\* in annotations, start or end generation, platforms, features, docstring
\* or manual code have equal signatures.
C11_SignatureIgnoresPayload ==
    lastOp = "codeSignature" =>
        (SameButPayload(sigCall.a, sigCall.b) => sigCall.sa = sigCall.sb)

\* ------------------------------------------------------------------ saving to the disk

\* What a file holds: the project as it was when the file was written (the
\* list of versions stands for the whole project), and whether all of it
\* has been written and the file closed.
Partial(text) == [text |-> text, whole |-> FALSE]
Whole(text) == [text |-> text, whole |-> TRUE]

\* os.remove(f), ignoring a missing file, and os.rename(from, to).
Remove(d, f) == [g \in DOMAIN d \ {f} |-> d[g]]
Rename(d, from, to) ==
    [g \in (DOMAIN d \ {from}) \cup {to} |-> IF g = to THEN d[from] ELSE d[g]]

\* A save that writes straight to the project's file.
SaveName_InPlace(nm, saveas) == IF saveas = None THEN nm ELSE saveas

\* Project.save: fname, the file that is written.
SaveName(nm, saveas) == IF saveas = None THEN nm \o ".new" ELSE saveas

\* backup = self.name + "~"
Backup(nm) == nm \o "~"

\* A file creation that forgets the diagnostic when it fails.
createIndentFile_Silent(d, fname, text, ok) ==
    IF ok
    THEN [f |-> fname, diagnostic |-> "", disk |-> (fname :> Partial(text)) @@ d]
    ELSE [f |-> None, diagnostic |-> "", disk |-> d]

\* _createIndentFile(prj, fname): open(fname, "w") creates the file or empties
\* it; when it raises IOError the diagnostic is set and None returned.  text
\* is what is then written to the file.
createIndentFile(d, fname, text, ok) ==
    IF ok
    THEN [f |-> fname, diagnostic |-> "", disk |-> (fname :> Partial(text)) @@ d]
    ELSE [f |-> None,
          diagnostic |-> "Unable to create file " \o fname \o ": IOError",
          disk |-> d]

\* The names under which the user saves the project.
SaveAsNames == {"p.msp", "q.msp"}

\* No save or generation is under way.
FileOpIdle == IF fileOp = NoCall THEN TRUE ELSE fileOp.pc = "done"

\* The end of a save: what it returned, or that it raised.
SaveEnd(result) == [fileOp EXCEPT !.pc = "done", !.result = result]

\* Project.save(saveas) up to the creation of the file.  Without a name of
\* its own a project is saved under a name that the user gives.
saveOpen ==
    /\ FileOpIdle
    /\ \E saveas \in {None} \cup SaveAsNames, ok \in BOOLEAN :
         /\ saveas = None => projName # ""
         /\ LET fname == SaveName(projName, saveas)
                c == createIndentFile(disk, fname, versions, ok)
                op == [op |-> "save", saveas |-> saveas, fname |-> fname,
                       text |-> versions,
                       before |-> [disk |-> disk, projName |-> projName],
                       pc |-> "writing", result |-> ""]
            IN  /\ disk' = c.disk
                /\ IF c.f = None
                   THEN /\ diagnostic' = c.diagnostic
                        /\ fileOp' = [op EXCEPT !.pc = "done", !.result = "False"]
                        /\ lastOp' = "saveFailed"
                   ELSE /\ diagnostic' = diagnostic
                        /\ fileOp' = op
                        /\ lastOp' = "saveOpen"
    /\ UNCHANGED <<treeVars, callVars, projName, scanCall, headers, requests>>

\* Project.save from the first write to f.close().  The attributes of a
\* header file make xmlAttributes raise, which leaves the file as far as it
\* was written.  A save under another name ends here, with the new name.
saveWrite ==
    /\ fileOp # NoCall /\ fileOp.op = "save" /\ fileOp.pc = "writing"
    /\ IF hfExists
       THEN /\ fileOp' = SaveEnd("raised")
            /\ lastOp' = "saveRaised"
            /\ UNCHANGED <<disk, projName>>
       ELSE /\ disk' = [disk EXCEPT ![fileOp.fname] = Whole(versions)]
            /\ IF fileOp.saveas = None
               THEN /\ fileOp' = [fileOp EXCEPT !.pc = "closed"]
                    /\ lastOp' = "saveClosed"
                    /\ UNCHANGED projName
               ELSE /\ projName' = fileOp.saveas
                    /\ fileOp' = SaveEnd("True")
                    /\ lastOp' = "saveDone"
    /\ UNCHANGED <<treeVars, callVars, diagnostic, scanCall, headers, requests>>

\* os.remove(backup), whether there is a backup or not.
saveRemoveOldBackup ==
    /\ fileOp # NoCall /\ fileOp.op = "save" /\ fileOp.pc = "closed"
    /\ disk' = Remove(disk, Backup(projName))
    /\ fileOp' = [fileOp EXCEPT !.pc = "backupRemoved"]
    /\ lastOp' = "saveRemoveOldBackup"
    /\ UNCHANGED <<treeVars, callVars, projName, diagnostic, scanCall, headers, requests>>

\* os.rename(self.name, backup), which raises when the project's file is
\* not there.
saveRenameToBackup ==
    /\ fileOp # NoCall /\ fileOp.op = "save" /\ fileOp.pc = "backupRemoved"
    /\ IF projName \in DOMAIN disk
       THEN /\ disk' = Rename(disk, projName, Backup(projName))
            /\ fileOp' = [fileOp EXCEPT !.pc = "renamed"]
            /\ lastOp' = "saveRenameToBackup"
       ELSE /\ fileOp' = SaveEnd("raised")
            /\ lastOp' = "saveRaised"
            /\ UNCHANGED disk
    /\ UNCHANGED <<treeVars, callVars, projName, diagnostic, scanCall, headers, requests>>

\* os.rename(fname, self.name)
saveRenameNew ==
    /\ fileOp # NoCall /\ fileOp.op = "save" /\ fileOp.pc = "renamed"
    /\ disk' = Rename(disk, fileOp.fname, projName)
    /\ fileOp' = [fileOp EXCEPT !.pc = "replaced"]
    /\ lastOp' = "saveRenameNew"
    /\ UNCHANGED <<treeVars, callVars, projName, diagnostic, scanCall, headers, requests>>

\* os.remove(backup) and return True.
saveRemoveBackup ==
    /\ fileOp # NoCall /\ fileOp.op = "save" /\ fileOp.pc = "replaced"
    /\ disk' = Remove(disk, Backup(projName))
    /\ fileOp' = SaveEnd("True")
    /\ lastOp' = "saveDone"
    /\ UNCHANGED <<treeVars, callVars, projName, diagnostic, scanCall, headers, requests>>

\* The project is changed, or given a header file, between two saves.
editVersions == FileOpIdle /\ addVersion
editHeaders == FileOpIdle /\ newHeaderFile

NextFile ==
    \/ editVersions
    \/ editHeaders
    \/ saveOpen
    \/ saveWrite
    \/ saveRemoveOldBackup
    \/ saveRenameToBackup
    \/ saveRenameNew
    \/ saveRemoveBackup

SpecFile == Init /\ [][NextFile]_vars

\* ------------------------------------------------------------------ claims on saving

\* A save to the project's own file (saveas is None) is under way or was
\* the latest operation on files.
OwnSave ==
    IF fileOp = NoCall THEN FALSE
    ELSE fileOp.op = "save" /\ fileOp.saveas = None

\* What the project's file held when the save began.
Previous == fileOp.before.disk[projName]

\* What the save writes: the project as it is when the save begins.
New == Whole(fileOp.text)

\* The points between two file-system operations of the backup, rename and
\* remove sequence, the one before its first operation included.
InSequence == fileOp.pc \in {"closed", "backupRemoved", "renamed", "replaced"}

C13_SaveFailure ==
    lastOp = "saveFailed" =>
        /\ fileOp.result = "False"
        /\ Contains(diagnostic, fileOp.fname)
        /\ disk = fileOp.before.disk
        /\ projName = fileOp.before.projName

\* A failed save of a changed project that has a file of its own.
C13_Witness ==
    /\ lastOp = "saveFailed"
    /\ fileOp.saveas = None
    /\ projName \in DOMAIN disk
    /\ disk[projName] = Whole(<<"1.0">>)
    /\ versions = <<"1.0", "2.0">>

\* ------------------------------------------------------------------ generating to the disk

\* The header files of the project and the module that holds some of them.
HeaderNames == {"a.h", "b.h"}
ModuleName == "m"

\* The contents of a module: header files, each once, in any order.
ModuleContents ==
    {hfs \in SeqsUpTo(HeaderNames, Cardinality(HeaderNames)) :
        \A i, j \in 1..Len(hfs) : i # j => hfs[i] # hfs[j]}

\* _createSIPFile: the name of the .sip file of a header file (its name
\* without the extension) and of the module.
SipName(hf) == SubSeq(hf, 1, Len(hf) - 2) \o ".sip"
RootName == ModuleName \o "mod" \o ".sip"

\* The files that generateModule creates for a module, in its order: those
\* of the header files, then the root file.
OutputNames(hfs) == [i \in 1..Len(hfs) |-> SipName(hfs[i])] \o <<RootName>>

\* What is written to a file: its name and the time of the call.
SipText(fname, run) == <<fname, Str(run)>>

RECURSIVE GenerateFiles(_, _, _, _)

\* A generation that goes on with the next file when one cannot be created.
CreateFailed_GoesOn(c, rest, unwritable, run) ==
    [GenerateFiles(c.disk, rest, unwritable, run) EXCEPT
        !.result = "False", !.diagnostic = c.diagnostic]

\* generateModule: if f is None: return False
CreateFailed(c, rest, unwritable, run) ==
    [result |-> "False", disk |-> c.disk, diagnostic |-> c.diagnostic]

\* Project.generateModule on the files it has still to write: each is
\* created by _createSIPFile, written and closed before the next one.
GenerateFiles(d, names, unwritable, run) ==
    IF names = <<>> THEN [result |-> "True", disk |-> d, diagnostic |-> ""]
    ELSE LET fname == Head(names)
             c == createIndentFile(d, fname, SipText(fname, run),
                                   fname \notin unwritable)
         IN  IF c.f = None
             THEN CreateFailed(c, Tail(names), unwritable, run)
             ELSE GenerateFiles([c.disk EXCEPT ![fname] = Whole(SipText(fname, run))],
                                Tail(names), unwritable, run)

\* The calls of generateModule so far.
Runs == IF fileOp = NoCall THEN 0 ELSE fileOp.run

\* Project.generateModule(ui, mod, od) for a module of any of the header
\* files, with any of its output files impossible to create.
generateModuleFiles ==
    /\ Runs < MaxRuns
    /\ \E hfs \in ModuleContents, unwritable \in SUBSET ({SipName(h) : h \in HeaderNames} \cup {RootName}) :
         LET g == GenerateFiles(disk, OutputNames(hfs), unwritable, Runs + 1)
         IN  /\ disk' = g.disk
             /\ diagnostic' = IF g.result = "False" THEN g.diagnostic ELSE diagnostic
             /\ fileOp' = [op |-> "generate", pc |-> "done", run |-> Runs + 1,
                           content |-> hfs, unwritable |-> unwritable,
                           before |-> [disk |-> disk, projName |-> projName],
                           result |-> g.result]
    /\ lastOp' = "generateModuleFiles"
    /\ UNCHANGED <<treeVars, callVars, projName, scanCall, headers, requests>>

NextGen == generateModuleFiles

SpecGen == Init /\ [][NextGen]_vars

\* The index of the first output file of the call that could not be
\* created, 0 when all could.
FirstFailure ==
    LET names == OutputNames(fileOp.content)
        bad == {i \in 1..Len(names) : names[i] \in fileOp.unwritable}
    IN  IF bad = {} THEN 0 ELSE CHOOSE i \in bad : \A j \in bad : i <= j

\* The file has been written by the latest call.
Written(fname) ==
    /\ fname \in DOMAIN disk
    /\ disk[fname] = Whole(SipText(fname, fileOp.run))

\* The file is as it was before the latest call: not there, or what it was.
Untouched(fname) ==
    IF fname \in DOMAIN fileOp.before.disk
    THEN fname \in DOMAIN disk /\ disk[fname] = fileOp.before.disk[fname]
    ELSE fname \notin DOMAIN disk

\* C14: generateModule returns False when an output file (the .sip file of
\* a header file or the root file) cannot be created: the files before it
\* in the order of generation have been written and are in place, that file
\* and every later one of the module is not written; it returns True only
\* when every file of the module has been written.
C14_GenerationFailure ==
    lastOp = "generateModuleFiles" =>
        LET names == OutputNames(fileOp.content)
        IN  /\ fileOp.result = "True" <=> FirstFailure = 0
            /\ fileOp.result = "True" => \A i \in 1..Len(names) : Written(names[i])
            /\ fileOp.result = "False" =>
                   /\ \A i \in 1..(FirstFailure - 1) : Written(names[i])
                   /\ \A i \in FirstFailure..Len(names) : Untouched(names[i])

\* A second generation of a module of two header files in which the second
\* file cannot be created: the first file is new, the second and the root
\* file are those of the first generation.
C14_Witness ==
    /\ lastOp = "generateModuleFiles"
    /\ fileOp.run = 2
    /\ fileOp.content = <<"a.h", "b.h">>
    /\ fileOp.unwritable = {"b.sip"}
    /\ fileOp.result = "False"
    /\ Written("a.sip")
    /\ {"b.sip", RootName} \subseteq DOMAIN disk
    /\ disk["b.sip"] = Whole(SipText("b.sip", 1))
    /\ disk[RootName] = Whole(SipText(RootName, 1))

\* ------------------------------------------------------------------ claims on merge and generations

\* A _mergeCode run has changed nothing of an existing child but its end
\* generation and its children, and nothing of a parsed item that it has
\* appended but its start generation.
OnlyGenerationsAndChildren(call) ==
    /\ Len(call.post) >= Len(call.pre)
    /\ \A i \in 1..Len(call.pre) :
           call.post[i] = [call.pre[i] EXCEPT !.egen = call.post[i].egen,
                                             !.content = call.post[i].content]
    /\ \A i \in (Len(call.pre) + 1)..Len(call.post) :
           \E k \in 1..Len(call.ssc) :
               call.post[i] = [call.ssc[k] EXCEPT !.sgen = call.post[i].sgen]

\* C15: in every state of the project, that of a new project without a
\* version included, and for every parsed list, _mergeCode ends without
\* raising, and it changes nothing but generations and child lists.
C15_MergeNeverRaises ==
    /\ lastOp # "mergeRaised"
    /\ lastOp = "merge" =>
           \A n \in 1..Len(calls) : OnlyGenerationsAndChildren(calls[n])

\* The elements of a tree, at any depth.
RECURSIVE AllElems(_)
AllElems(c) == UNION {{c[i]} \cup AllElems(c[i].content) : i \in 1..Len(c)}

\* The number of the start generation, an absent one being the beginning
\* of time.
StartOf(e) == IF e.sgen = "" THEN 0 ELSE ToInt(e.sgen)

\* C16: in every state reached by addVersion, merges and scans, every
\* element with an end generation has one that is not less than its start
\* generation, an absent start generation counting as the beginning of time.
C16_RangeWellFormed ==
    \A e \in AllElems(content) : e.egen # "" => ToInt(e.egen) >= StartOf(e)

\* A merge in generation 2 has left a class of generation 1 with a method
\* of generation 1 that ended in generation 2, and an element that started
\* and ended in generation 2.
C16_Witness ==
    /\ lastOp = "merge"
    /\ \E k \in AllElems(content) :
         /\ k.kind = "Class" /\ k.sgen = "1" /\ k.egen = ""
         /\ \E i \in 1..Len(k.content) :
              k.content[i].sgen = "1" /\ k.content[i].egen = "2"
    /\ \E e \in AllElems(content) : e.sgen = "2" /\ e.egen = "2"

\* C17: addVersion appends the new label at the end of the list of
\* versions, leaves every earlier label at its index, sets the generation to
\* the new length of the list and marks the project dirty; no operation
\* removes or reorders a label, and the generation never decreases.
C17_AppendOnly ==
    [][/\ Len(versions') >= Len(versions)
       /\ \A i \in 1..Len(versions) : versions'[i] = versions[i]
       /\ generation' >= generation
       /\ lastOp' = "addVersion" =>
              /\ Len(versions') = Len(versions) + 1
              /\ versions' = Append(versions, versions'[Len(versions')])
              /\ generation' = Len(versions')
              /\ dirty'
       /\ lastOp' # "addVersion" =>
              versions' = versions /\ generation' = generation]_vars

\* The second version has been added to a project with code: the first
\* label is where it was.
C17_Witness ==
    /\ lastOp = "addVersion"
    /\ versions = <<"1.0", "2.0">>
    /\ generation = 2
    /\ dirty
    /\ content # <<>>

\* The tree before is kept in the tree after: each child list begins with
\* the children it had, each the element it was but for its end generation
\* and its own children, which are kept in the same way.
RECURSIVE KeptTree(_, _)
KeptTree(before, after) ==
    /\ Len(after) >= Len(before)
    /\ \A i \in 1..Len(before) :
           /\ [after[i] EXCEPT !.egen = "", !.content = <<>>]
              = [before[i] EXCEPT !.egen = "", !.content = <<>>]
           /\ KeptTree(before[i].content, after[i].content)

\* C18: in any merge the child list of a container before the merge is a
\* prefix of its child list after it, the same elements in the same order,
\* at any depth: the merge appends at the end and removes or reorders
\* nothing.
C18_ChildrenKept == lastOp = "merge" => KeptTree(pre, content)

\* A merge that retires the first of two children and appends a new one.
C18_Witness ==
    /\ lastOp = "merge"
    /\ Len(pre) = 2 /\ Len(content) = 3
    /\ pre[1].egen = "" /\ content[1].egen # ""
    /\ pre[1].kind # content[3].kind

\* The current children of a _mergeCode run, manual code aside, that are
\* the declaration of x: each of them takes one parsed item.
Takers(call, x) ==
    Cardinality({i \in 1..Len(call.pre) :
                    /\ call.pre[i].egen = ""
                    /\ call.pre[i].kind # "ManualCode"
                    /\ SameDecl(call.pre[i], x)})

\* The place of the k-th parsed item among the parsed items of its
\* declaration.
RankOf(ssc, k) == Cardinality({j \in 1..k : SameDecl(ssc[j], ssc[k])})

\* The parsed items that no existing child takes, in the order of the parse.
RECURSIVE NotTakenFrom(_, _)
NotTakenFrom(call, k) ==
    IF k > Len(call.ssc) THEN <<>>
    ELSE (IF RankOf(call.ssc, k) > Takers(call, call.ssc[k])
          THEN <<call.ssc[k]>> ELSE <<>>)
         \o NotTakenFrom(call, k + 1)

\* C20: in every _mergeCode run the parsed items that no existing child has
\* taken are appended to the end of the child list in the order of the
\* parse, each with the current generation as its start generation.
C20_NewItemsAppended ==
    lastOp = "merge" =>
        \A n \in 1..Len(calls) :
            LET new == NotTakenFrom(calls[n], 1)
            IN  /\ Len(calls[n].post) = Len(calls[n].pre) + Len(new)
                /\ \A j \in 1..Len(new) :
                       calls[n].post[Len(calls[n].pre) + j]
                       = [new[j] EXCEPT !.sgen = Str(generation)]

\* A merge in generation 2 into a tree with a function: of the parsed
\* function, class and function the first is taken, and the class and the
\* second function are appended in that order.
C20_Witness ==
    /\ lastOp = "merge"
    /\ generation = 2
    /\ Len(pre) = 1 /\ pre[1].kind = "Function" /\ pre[1].egen = ""
    /\ Len(lastParsed) = 3
    /\ lastParsed[1].kind = "Function"
    /\ lastParsed[2].kind = "Class"
    /\ lastParsed[3].kind = "Function"
    /\ Len(content) = 3
    /\ content[2].kind = "Class" /\ content[2].sgen = "2"
    /\ content[3].kind = "Function" /\ content[3].sgen = "2"

\* ------------------------------------------------------------------ the hash of a header file

\* src[i], one character as a string.
CharAt(src, i) == SubSeq(src, i, i)

\* The loop of _scanHeaderFile over the characters of the file: what has
\* been given to m.update when it ends.  In the copy state a character that
\* does not start a comment makes the loop pass on the character before
\* it, so the last character of the file is never passed on.
RECURSIVE Copied(_, _, _, _)
Copied(src, idx, state, copy) ==
    IF idx > Len(src) THEN copy
    ELSE LET ch == CharAt(src, idx)
             prev == IF idx > 1 THEN CharAt(src, idx - 1) ELSE ""
         IN  IF state = "ccmnt"
             THEN Copied(src, idx + 1,
                         IF ch = "/" /\ prev = "*" THEN "copy" ELSE "ccmnt", copy)
             ELSE IF state = "cppcmnt"
             THEN Copied(src, idx + 1,
                         IF ch = "\n" THEN "copy" ELSE "cppcmnt", copy)
             ELSE IF ch = "*" /\ prev = "/"
             THEN Copied(src, idx + 1, "ccmnt", copy)
             ELSE IF ch = "/" /\ prev = "/"
             THEN Copied(src, idx + 1, "cppcmnt", copy)
             ELSE Copied(src, idx + 1, "copy", copy \o prev)

\* hashlib.md5 of what was passed on, as a digest without collisions.
md5(text) == "md5:" \o text

\* The signature that _scanHeaderFile computes for the text of a file.
Sig(src) == md5(Copied(src, 1, "copy", ""))

\* The texts of the header file, before and after an edit.
HeaderTexts ==
    {"int a;\n", "int b;\n", "int a;", "int a;/*x*/\n", "int a;/*y*/\n",
     "int a;//x\n", "int a;//y\n", "/*x*/int a;\n", "a/*x*/b\n", "ab\n",
     "a=1", "a=2", "/*/x*/a\n", "/*/y*/a\n", "a\n//x", "a\n//y"}

\* A project with one version and no header file, and the two texts that the
\* header file will have.
InitScan ==
    /\ versions = <<"1.0">>
    /\ generation = 1
    /\ dirty = FALSE
    /\ hfExists = FALSE
    /\ content = <<>>
    /\ pre = <<>>
    /\ preDirty = FALSE
    /\ lastParsed = <<>>
    /\ repeated = FALSE
    /\ calls = <<>>
    /\ CallsIdle
    /\ projName = ""
    /\ diagnostic = ""
    /\ disk = NoFiles
    /\ fileOp = NoCall
    /\ scanCall \in [a : HeaderTexts, b : HeaderTexts, scans : {0}]
    /\ headers = <<>>
    /\ requests = <<>>
    /\ lastOp = "init"

\* HeaderDirectory._scanHeaderFile(hpath, hfile): the first call finds the
\* first text and no header file of that name, and adds one with the
\* signature; the second call finds the second text, and sets the signature
\* and 'parse needed' when the signature is another one.
scanHeaderFile ==
    /\ scanCall.scans < 2
    /\ IF scanCall.scans = 0
       THEN /\ scanCall' = [a |-> scanCall.a, b |-> scanCall.b, scans |-> 1,
                            first |-> Sig(scanCall.a), md5 |-> Sig(scanCall.a),
                            parse |-> "needed"]
            /\ hfExists' = TRUE
            /\ dirty' = TRUE
       ELSE /\ scanCall' = [scanCall EXCEPT
                               !.scans = 2,
                               !.md5 = Sig(scanCall.b),
                               !.parse = IF scanCall.md5 # Sig(scanCall.b)
                                         THEN "needed" ELSE @]
            /\ UNCHANGED <<hfExists, dirty>>
    /\ lastOp' = "scanHeaderFile"
    /\ NoMerge
    /\ UNCHANGED <<versions, generation, content>>
    /\ UNCHANGED callVars
    /\ UNCHANGED <<projName, diagnostic, disk, fileOp, headers, requests>>

NextScan == scanHeaderFile

SpecScan == InitScan /\ [][NextScan]_vars

\* The first place from j on at which the text has the two characters, 0
\* if there is none.
RECURSIVE Find(_, _, _)
Find(src, two, j) ==
    IF j + Len(two) - 1 > Len(src) THEN 0
    ELSE IF SubSeq(src, j, j + Len(two) - 1) = two THEN j
    ELSE Find(src, two, j + 1)

\* The text with its comments taken out as the C and C++ languages delimit
\* them: from '/*' to the next '*/' after it, and from '//' to the end of
\* the line.  c is written for a C comment and cpp for a C++ comment.
RECURSIVE Uncommented(_, _, _, _)
Uncommented(src, i, c, cpp) ==
    IF i > Len(src) THEN ""
    ELSE IF i < Len(src) /\ SubSeq(src, i, i + 1) = "/*"
    THEN LET end == Find(src, "*/", i + 2)
         IN  c \o (IF end = 0 THEN "" ELSE Uncommented(src, end + 2, c, cpp))
    ELSE IF i < Len(src) /\ SubSeq(src, i, i + 1) = "//"
    THEN LET end == Find(src, "\n", i + 2)
         IN  cpp \o (IF end = 0 THEN "" ELSE Uncommented(src, end, c, cpp))
    ELSE CharAt(src, i) \o Uncommented(src, i + 1, c, cpp)

\* The text with the comments stripped.
Stripped(src) == Uncommented(src, 1, "", "")

\* Two texts differ only inside comments: with every comment emptied they
\* are the same text.
SameButComments(a, b) ==
    Uncommented(a, 1, "/**/", "//") = Uncommented(b, 1, "/**/", "//")

\* C19: the hash of a header file changes if and only if the text with the
\* comments stripped changes: two texts that differ only inside C or C++
\* comments get the same hash, and two texts whose stripped content differs
\* in any character, the last one included, get different hashes.
C19_ContentHash ==
    (lastOp = "scanHeaderFile" /\ scanCall.scans = 2) =>
        /\ SameButComments(scanCall.a, scanCall.b) => scanCall.md5 = scanCall.first
        /\ Stripped(scanCall.a) # Stripped(scanCall.b) => scanCall.md5 # scanCall.first

\* ------------------------------------------------------------------ a curated tree

\* The most elements of the curated tree that the merges are followed to.
MaxCurated == 3

\* An element with the texts that the user gives it: the docstring and the
\* manual code (%MethodCode and the like).  The parser gives none.
WithTexts(e, doc, code) == e @@ [docstring |-> doc, code |-> code]

\* What the parser delivers for the curated header file: a function, an
\* enum without values or with one, a class with any of two methods.
CuratedValues == {WithTexts(Elem("EnumValue", "B", "", <<>>), "", "")}
CuratedMethods == {WithTexts(Elem("Method", "m", "public", <<>>), "", ""),
                   WithTexts(Elem("Method", "n", "protected", <<>>), "", "")}
CuratedItems ==
    {WithTexts(Elem("Function", "f", "", <<>>), "", "")}
    \cup {WithTexts(Elem("Enum", "E", "", sub), "", "") :
              sub \in {<<>>} \cup {<<v>> : v \in CuratedValues}}
    \cup {WithTexts(Elem("Class", "K", "", sub), "", "") :
              sub \in {<<>>} \cup {<<m>> : m \in CuratedMethods}}
CuratedLists == SeqsUpTo(CuratedItems, 2)

\* An element as the user has left it: checked, with annotations, platforms,
\* features, a docstring and manual code, there since the first generation.
Curated(e) ==
    [e EXCEPT !.status = "", !.annos = "ReleaseGIL", !.platforms = "Linux",
              !.features = "Thread", !.sgen = "1",
              !.docstring = "text", !.code = "code"]

\* The same, gone in the first generation already.
Gone(e) == [Curated(e) EXCEPT !.egen = "1"]

\* An enum value as the user has left it: checked, with an annotation.
CuratedValue(e) == [e EXCEPT !.status = "", !.annos = "PyName=X", !.sgen = "1"]

\* The trees that the user has curated before the merges.
CuratedTrees ==
    LET f == WithTexts(Elem("Function", "f", "", <<>>), "", "")
        m == WithTexts(Elem("Method", "m", "public", <<>>), "", "")
        a == WithTexts(Elem("EnumValue", "A", "", <<>>), "", "")
        b == WithTexts(Elem("EnumValue", "B", "", <<>>), "", "")
        e == WithTexts(Elem("Enum", "E", "",
                            <<CuratedValue(a), [CuratedValue(b) EXCEPT !.egen = "1"]>>),
                       "", "")
        k == WithTexts(Elem("Class", "K", "", <<>>), "", "")
        km == WithTexts(Elem("Class", "K", "", <<Curated(m)>>), "", "")
    IN  {<<>>, <<Curated(f)>>, <<Gone(f), Curated(f)>>, <<Curated(e)>>,
         <<Curated(k)>>, <<Curated(km)>>}

\* A project of one version with a header file that the user has curated.
InitCurated ==
    /\ versions = <<"1.0">>
    /\ generation = 1
    /\ dirty = FALSE
    /\ hfExists = TRUE
    /\ content \in CuratedTrees
    /\ pre = <<>>
    /\ preDirty = FALSE
    /\ lastParsed = <<>>
    /\ repeated = FALSE
    /\ calls = <<>>
    /\ CallsIdle
    /\ FilesIdle
    /\ lastOp = "init"

\* The user checks an element of the header file: the status becomes ''.
Check(e) == [e EXCEPT !.status = ""]
setStatus ==
    /\ \E i \in 1..Len(content) :
         /\ content[i].status # ""
         /\ content' = [content EXCEPT ![i] = Check(@)]
    /\ dirty' = TRUE
    /\ lastOp' = "setStatus"
    /\ NoMerge
    /\ UNCHANGED <<versions, generation, hfExists>>
    /\ UNCHANGED callVars
    /\ UNCHANGED fileVars

\* The project is changed up to the generation of its module, which is
\* followed once.
mergeCurated == sipFile = NoCall /\ MergeInto(CuratedLists, MaxCurated)
checkCurated == sipFile = NoCall /\ setStatus
versionCurated == sipFile = NoCall /\ addVersion
generateCurated == sipFile = NoCall /\ generateModule

NextCurated ==
    \/ mergeCurated
    \/ checkCurated
    \/ versionCurated
    \/ generateCurated

SpecCurated == InitCurated /\ [][NextCurated]_vars

\* ------------------------------------------------------------------ claims on the curated tree

\* The place of the i-th child among the current children, manual code
\* aside, that are its declaration.
TakerRank(call, i) ==
    Cardinality({j \in 1..i : /\ call.pre[j].egen = ""
                              /\ call.pre[j].kind # "ManualCode"
                              /\ SameDecl(call.pre[j], call.pre[i])})

\* The i-th child of a _mergeCode run is current, is no manual code and
\* finds a parsed item of its declaration that no child before it has taken.
Matched(call, i) ==
    /\ call.pre[i].egen = ""
    /\ call.pre[i].kind # "ManualCode"
    /\ TakerRank(call, i) <= Len(DeclsOf(call.ssc, call.pre[i]))

\* The parsed item that the i-th child takes: the first of its declaration
\* in the order of the parse that is not taken yet.
TakenBy(call, i) == DeclsOf(call.ssc, call.pre[i])[TakerRank(call, i)]

\* C21: in every _mergeCode run an existing child that is matched stays the
\* element it was in all its own fields (generations, status, annotations,
\* platforms, features, docstring, manual code); the parsed item it takes is
\* the first of its declaration in parse order not taken yet, whose children
\* are the ones merged into a class; that item is removed from the parsed
\* list and appears nowhere, and no parsed item is taken twice: what is
\* left of the parsed list is the parsed list without one item per taker.
C21_OldWins ==
    lastOp = "merge" =>
        \A n \in 1..Len(calls) :
            LET call == calls[n]
            IN  /\ \A i \in 1..Len(call.pre) :
                       Matched(call, i) =>
                           /\ call.post[i] = [call.pre[i] EXCEPT
                                                 !.content = call.post[i].content]
                           /\ call.post[i].content =
                                  IF call.pre[i].kind \in {"Class", "Namespace"}
                                  THEN MergeCode(call.pre[i].content,
                                                 TakenBy(call, i).content,
                                                 generation).content
                                  ELSE call.pre[i].content
                /\ call.left = NotTakenFrom(call, 1)
                /\ Len(call.post) = Len(call.pre) + Len(call.left)

\* A merge in the second generation into a tree with a curated class that
\* has no children: of the two parsed classes the first, which has a method,
\* is taken, so the class gets the method, and the second is appended; the
\* class has kept what the user gave it.
C21_Witness ==
    /\ lastOp = "merge"
    /\ generation = 2
    /\ Len(pre) = 1 /\ pre[1].kind = "Class" /\ pre[1].annos = "ReleaseGIL"
    /\ pre[1].content = <<>>
    /\ Len(lastParsed) = 2
    /\ lastParsed[1].kind = "Class" /\ lastParsed[1].content # <<>>
    /\ lastParsed[2].kind = "Class" /\ lastParsed[2].content = <<>>
    /\ Len(content) = 2
    /\ content[1].annos = "ReleaseGIL" /\ content[1].docstring = "text"
    /\ content[1].status = "" /\ content[1].sgen = "1" /\ content[1].egen = ""
    /\ Len(content[1].content) = 1 /\ content[1].content[1].sgen = "2"
    /\ content[2].status = "unknown" /\ content[2].sgen = "2"
    /\ content[2].content = <<>>

\* C29: in every _mergeCode run the child list of an element that is
\* neither a class nor a namespace is left as it is, so an enum that is
\* matched is afterwards the enum it was, with the values it had and their
\* generations, whatever values the parsed enum has; and every nested run is
\* the merge of the children of a matched class or namespace.
C29_EnumValuesKept ==
    lastOp = "merge" =>
        /\ \A n \in 1..Len(calls) : \A i \in 1..Len(calls[n].pre) :
               /\ calls[n].pre[i].kind \notin {"Class", "Namespace"}
                  => calls[n].post[i].content = calls[n].pre[i].content
               /\ (calls[n].pre[i].kind = "Enum" /\ Matched(calls[n], i))
                  => calls[n].post[i] = calls[n].pre[i]
        /\ \A n \in 2..Len(calls) :
               \E k \in 1..(n - 1) : \E i \in 1..Len(calls[k].pre) :
                   /\ calls[k].pre[i].kind \in {"Class", "Namespace"}
                   /\ Matched(calls[k], i)
                   /\ calls[k].pre[i].content = calls[n].pre

\* A merge in the second generation of a parsed enum with the one value B
\* into a tree whose enum has a current value A and a retired value B: the
\* enum and its values are what they were.
C29_Witness ==
    /\ lastOp = "merge"
    /\ generation = 2
    /\ Len(pre) = 1 /\ pre[1].kind = "Enum" /\ pre[1].egen = ""
    /\ Len(pre[1].content) = 2
    /\ pre[1].content[1].name = "A" /\ pre[1].content[1].egen = ""
    /\ pre[1].content[2].name = "B" /\ pre[1].content[2].egen = "1"
    /\ Len(lastParsed) = 1 /\ lastParsed[1].kind = "Enum"
    /\ Len(lastParsed[1].content) = 1 /\ lastParsed[1].content[1].name = "B"
    /\ content = pre

\* The statuses of a tree are those it had, at any depth.
RECURSIVE StatusKept(_, _)
StatusKept(before, after) ==
    /\ Len(after) >= Len(before)
    /\ \A i \in 1..Len(before) :
           /\ after[i].status = before[i].status
           /\ StatusKept(before[i].content, after[i].content)

\* C30: a merge leaves the status of every existing element as it was, and
\* an element that it appends is the parsed item but for the start
\* generation, with the status the parser gave it ('unknown') at any depth;
\* an element with a status that is not empty has no line in the .sip file.
C30_StatusUntouched ==
    /\ lastOp = "merge" =>
         /\ StatusKept(pre, content)
         /\ \A n \in 1..Len(calls) :
                LET new == NotTakenFrom(calls[n], 1)
                IN  /\ Len(calls[n].post) = Len(calls[n].pre) + Len(new)
                    /\ \A j \in 1..Len(new) :
                           LET e == calls[n].post[Len(calls[n].pre) + j]
                           IN  /\ [e EXCEPT !.sgen = new[j].sgen] = new[j]
                               /\ e.status = "unknown"
    /\ lastOp = "generateModule" =>
         \A p \in PathsOf(content, <<>>) :
             ElemAt(content, p).status # "" => LinesFor(p) = {}

\* The module is generated after a merge in the second generation has given
\* a method to a class that the user has checked: the class is written, the
\* method, which has the status 'unknown', is not.
C30_Witness ==
    /\ lastOp = "generateModule"
    /\ Len(content) = 1 /\ content[1].kind = "Class" /\ content[1].status = ""
    /\ Len(content[1].content) = 1
    /\ content[1].content[1].status = "unknown"
    /\ content[1].content[1].sgen = "2"
    /\ LinesFor(<<1>>) # {}
    /\ LinesFor(<<1, 1>>) = {}

\* ------------------------------------------------------------------ merges of distinct declarations

\* No two items of a parsed list are the same declaration, at any depth.
RECURSIVE Distinct(_)
Distinct(ssc) ==
    /\ \A i \in 1..Len(ssc) : \A j \in (i + 1)..Len(ssc) : ~SameDecl(ssc[i], ssc[j])
    /\ \A i \in 1..Len(ssc) : Distinct(ssc[i].content)

\* The parsed header files in which no declaration is repeated.
DistinctLists == {phf \in ParsedLists : Distinct(phf)}

\* An element that a merge has appended in generation s and, if e is not
\* '', another merge has retired in generation e.
Since(e, s, eg) == [e EXCEPT !.sgen = s, !.egen = eg]

\* The projects that the merges start from, each as earlier merges have
\* left it: an empty header file; one with a class and its method; one with
\* a function that was parsed twice in the first generation and not at all
\* in the second; one with a function that went and came back.
DistinctStarts ==
    LET f == Elem("Function", "f", "", <<>>)
        k == Elem("Class", "K", "", <<Since(Elem("Method", "m", "public", <<>>), "1", "")>>)
    IN  {[versions |-> <<"1.0">>, content |-> <<>>],
         [versions |-> <<"1.0">>, content |-> <<Since(k, "1", "")>>],
         [versions |-> <<"1.0", "2.0">>,
          content |-> <<Since(f, "1", "2"), Since(f, "1", "2")>>],
         [versions |-> <<"1.0", "2.0">>,
          content |-> <<Since(f, "1", "1"), Since(f, "1", "")>>]}

InitDistinct ==
    /\ \E st \in DistinctStarts :
         /\ versions = st.versions
         /\ generation = Len(st.versions)
         /\ content = st.content
    /\ dirty = FALSE
    /\ hfExists = TRUE
    /\ pre = <<>>
    /\ preDirty = FALSE
    /\ lastParsed = <<>>
    /\ repeated = FALSE
    /\ calls = <<>>
    /\ CallsIdle
    /\ FilesIdle
    /\ lastOp = "init"

\* HeaderDirectory.addParsedHeaderFile of a parsed header file without
\* repeated declarations.
mergeDistinct == MergeInto(DistinctLists, MaxElems)

NextDistinct ==
    \/ addVersion
    \/ mergeDistinct

SpecDistinct == InitDistinct /\ [][NextDistinct]_vars

\* The generations of an element as numbers: it is there from From(e) up
\* to, and not including, Until(e), which is past every generation for a
\* current element.
From(e) == StartOf(e)
Until(e) == IF e.egen = "" THEN Len(GenStr) + 1 ELSE ToInt(e.egen)

\* Two elements are there in a common generation.
Overlap(a, b) ==
    LET lo == IF From(a) > From(b) THEN From(a) ELSE From(b)
        hi == IF Until(a) < Until(b) THEN Until(a) ELSE Until(b)
    IN  lo < hi

\* The pairs of children of a container, manual code aside, that are the
\* same declaration.
Twins(c) ==
    {ij \in (1..Len(c)) \X (1..Len(c)) :
        /\ ij[1] < ij[2]
        /\ c[ij[1]].kind # "ManualCode"
        /\ SameDecl(c[ij[1]], c[ij[2]])}

\* No container of the tree holds two current children, manual code aside,
\* that are the same declaration.
RECURSIVE OneCurrent(_)
OneCurrent(c) ==
    /\ \A ij \in Twins(c) : ~(c[ij[1]].egen = "" /\ c[ij[2]].egen = "")
    /\ \A i \in 1..Len(c) : OneCurrent(c[i].content)

\* No container of the tree holds two children, manual code aside, that
\* are the same declaration and are there in a common generation.
RECURSIVE Disjoint(_)
Disjoint(c) ==
    /\ \A ij \in Twins(c) : ~Overlap(c[ij[1]], c[ij[2]])
    /\ \A i \in 1..Len(c) : Disjoint(c[i].content)

\* C28 as claimed: a merge of distinct declarations into a tree in which no
\* container holds two current children of one declaration leaves a tree
\* in which no container holds two such children, and in which any two
\* children of one declaration have generation ranges that do not overlap.
C28_UniqueCurrent ==
    lastOp = "merge" =>
        (OneCurrent(pre) => OneCurrent(content) /\ Disjoint(content))

\* C28 as amended: a merge of distinct declarations into a tree in which
\* any two children of one declaration have generation ranges that do not
\* overlap (so that at most one of them is current) leaves such a tree;
\* and a tree in which no container holds two current children of one
\* declaration is left as such a tree.  addVersion leaves the tree alone.
C28_DisjointRanges ==
    lastOp = "merge" =>
        /\ OneCurrent(pre) => OneCurrent(content)
        /\ Disjoint(pre) => Disjoint(content) /\ OneCurrent(content)

\* A merge in the second generation that brings back a function which was
\* there in the first generation and in part of the second: the tree holds
\* it three times, the ranges apart from each other.
C28_Witness ==
    /\ lastOp = "merge"
    /\ generation = 2
    /\ Disjoint(pre)
    /\ Len(pre) = 2 /\ pre[1].egen = "1" /\ pre[2].sgen = "1" /\ pre[2].egen = "2"
    /\ Len(content) = 3
    /\ SameDecl(content[1], content[3]) /\ SameDecl(content[2], content[3])
    /\ content[3].sgen = "2" /\ content[3].egen = ""

\* ------------------------------------------------------------------ scanning a header directory

\* HeaderFile.__init__(id, name, md5, parse, status, sgen, egen): platforms,
\* features and annos are None.
HeaderFile(id, name, sig, parse, status, sgen, egen) ==
    [id |-> id, name |-> name, md5 |-> sig, parse |-> parse,
     status |-> status, sgen |-> sgen, egen |-> egen,
     annos |-> None, platforms |-> None, features |-> None]

\* The text of the header files in the source directory.
SourceText == "int a;\n"

\* The source directories that are scanned: any of the header files is
\* there or is not.
SourceDirs ==
    {[n \in names |-> Whole(SourceText)] : names \in SUBSET HeaderNames}

\* The header directories as Project.load has left them, the header files
\* with the attributes of the project file: unknown or checked, parsed or
\* not, current or retired in the first generation.
KnownHeaderFiles(n) ==
    {HeaderFile(None, n, Sig(SourceText), parse, status, "1", egen) :
        parse \in {"", "needed"}, status \in {"", "unknown"}, egen \in {"", "1"}}
KnownDirs ==
    {<<>>}
    \cup {<<a>> : a \in KnownHeaderFiles("a.h")}
    \cup {<<a, b>> : a \in KnownHeaderFiles("a.h"), b \in KnownHeaderFiles("b.h")}
    \cup {<<r, a>> : r \in {h \in KnownHeaderFiles("a.h") : h.egen # ""},
                     a \in {h \in KnownHeaderFiles("a.h") : h.egen = ""}}

\* A project of one version with a header directory and its source
\* directory.
InitDir ==
    /\ versions = <<"1.0">>
    /\ generation = 1
    /\ dirty = FALSE
    /\ hfExists = FALSE
    /\ content = <<>>
    /\ pre = <<>>
    /\ preDirty = FALSE
    /\ lastParsed = <<>>
    /\ repeated = FALSE
    /\ calls = <<>>
    /\ CallsIdle
    /\ projName = ""
    /\ diagnostic = ""
    /\ disk \in SourceDirs
    /\ fileOp = NoCall
    /\ scanCall = NoCall
    /\ headers \in KnownDirs
    /\ requests = <<>>
    /\ lastOp = "init"

\* A scan that adds a header file for every file of the source directory
\* whose first header file of that name is retired, as _scanHeaderFile
\* does, and stops there.
Scan_Reappearing(hs, d, gen) ==
    LET back == {n \in DOMAIN d :
                    \E i \in 1..Len(hs) :
                        /\ hs[i].name = n /\ hs[i].egen # ""
                        /\ \A j \in 1..(i - 1) : hs[j].name # n}
        added[todo \in SUBSET back] ==
            IF todo = {} THEN <<>>
            ELSE LET n == CHOOSE x \in todo : TRUE
                 IN  <<HeaderFile(None, n, Sig(d[n].text), "needed", "unknown",
                                  Str(gen), "")>> \o added[todo \ {n}]
    IN  [raised |-> "", headers |-> hs \o added[back]]

\* HeaderDirectory.scan(sd, ui) up to where it ends: 'saved = self[:]'
\* raises TypeError, a HeaderDirectory being no sequence, before a file of
\* the source directory is looked at and before a header file is changed.
Scan(hs, d, gen) == [raised |-> "TypeError", headers |-> hs]

\* HeaderDirectory.scan(sd, ui), with the header files as they were before
\* it, and whether it directly repeats a scan.
scanDirectory ==
    /\ LET s == Scan(headers, disk, generation)
       IN  /\ headers' = s.headers
           /\ dirty' = IF s.raised = "" THEN TRUE ELSE dirty
           /\ scanCall' = [before |-> headers, raised |-> s.raised,
                           again |-> lastOp \in {"scan", "scanRaised"}]
           /\ lastOp' = IF s.raised = "" THEN "scan" ELSE "scanRaised"
    /\ NoMerge
    /\ UNCHANGED <<versions, generation, hfExists, content>>
    /\ UNCHANGED callVars
    /\ UNCHANGED <<projName, diagnostic, disk, fileOp, requests>>

NextDir ==
    \/ scanDirectory
    \/ addVersion

SpecDir == InitDir /\ [][NextDir]_vars

\* ------------------------------------------------------------------ claims on scanning

\* A header file that was known before the scan, is current and has no
\* file of its name in the source directory.
Vanished(hf) == hf.egen = "" /\ hf.name \notin DOMAIN disk

\* C26: after a scan every header file that was known before it, is current
\* and was not found in the source directory is no longer in the header
\* directory if its status is 'unknown', and is otherwise still there with
\* the current generation as its end generation; a header file that was
\* retired before the scan is there as it was.
C26_VanishedHeaderFiles ==
    lastOp \in {"scan", "scanRaised"} =>
        \A i \in 1..Len(scanCall.before) :
            LET hf == scanCall.before[i]
            IN  /\ (Vanished(hf) /\ hf.status = "unknown")
                   => \A j \in 1..Len(headers) : headers[j] # hf
                /\ (Vanished(hf) /\ hf.status # "unknown")
                   => \E j \in 1..Len(headers) :
                          headers[j] = [hf EXCEPT !.egen = Str(generation)]
                /\ hf.egen # ""
                   => \E j \in 1..Len(headers) : headers[j] = hf

MaxRequests == 7

\* An _IndentFile that has just been created.
InitIndent ==
    /\ versions = <<>>
    /\ generation = 0
    /\ dirty = FALSE
    /\ hfExists = FALSE
    /\ content = <<>>
    /\ pre = <<>>
    /\ preDirty = FALSE
    /\ lastParsed = <<>>
    /\ repeated = FALSE
    /\ calls = <<>>
    /\ rangeCall = NoCall
    /\ sipFile = NewFile
    /\ apiCall = NoCall
    /\ sigCall = NoCall
    /\ saveCall = NoCall
    /\ loadCall = NoCall
    /\ FilesIdle
    /\ lastOp = "init"

\* A request made of the file: f is the file after it.
Request(request, f) ==
    /\ Len(requests) < MaxRequests
    /\ sipFile' = f
    /\ requests' = Append(requests, request)
    /\ lastOp' = request
    /\ UNCHANGED treeVars
    /\ UNCHANGED <<rangeCall, apiCall, sigCall, saveCall, loadCall>>
    /\ UNCHANGED <<projName, diagnostic, disk, fileOp, scanCall, headers>>

\* f.write("x\n"): the line is kept with the number of the request.
writeLine == Request("write", Write(sipFile, <<"x">>, TRUE, <<Len(requests) + 1>>))

\* f.write("")
writeNothing == Request("nothing", Write(sipFile, <<>>, TRUE, <<Len(requests) + 1>>))

\* f.blank()
blankLine == Request("blank", blank(sipFile))

\* f += 1
increase == Request("increase", Indent(sipFile))

\* f -= 1
decrease == Request("decrease", Dedent(sipFile))

NextIndent ==
    \/ writeLine
    \/ writeNothing
    \/ blankLine
    \/ increase
    \/ decrease

SpecIndent == InitIndent /\ [][NextIndent]_vars

\* The latest request before the k-th that is one of these, 0 if none is.
Latest(which, k) ==
    LET before == {j \in 1..(k - 1) : requests[j] \in which}
    IN  IF before = {} THEN 0 ELSE CHOOSE j \in before : \A o \in before : o <= j

\* The blank lines that the file holds for the k-th request, a write.
BlankLines(k) ==
    {i \in 1..Len(sipFile.out) : sipFile.out[i].elem = <<k>> /\ sipFile.out[i].text = ""}

\* The blank() requests between the latest write before the k-th request
\* and that request, and the ones of them that come after a change of the
\* indentation made since that write.
BlanksBefore(k) ==
    {b \in (Latest({"write"}, k) + 1)..(k - 1) : requests[b] = "blank"}
AfterChange(k) ==
    {b \in BlanksBefore(k) :
        \E c \in (Latest({"write"}, k) + 1)..(b - 1) :
            requests[c] \in {"increase", "decrease"}}

\* C24 as stated: where every blank() since the last write comes after a
\* change of the indentation, an increase or a decrease, the text written
\* next has no blank line before it; where blank() is all that was asked
\* for since the last write, once or more often, it has exactly one.
C24_SuppressedAfterAnyChange ==
    \A k \in 1..Len(requests) :
        requests[k] = "write" =>
          /\ BlanksBefore(k) = AfterChange(k) => BlankLines(k) = {}
          /\ (/\ BlanksBefore(k) # {}
              /\ \A j \in (Latest({"write"}, k) + 1)..(k - 1) :
                     requests[j] \in {"blank", "nothing"})
             => Cardinality(BlankLines(k)) = 1

\* The blank() requests that count for the k-th request: those made since
\* the latest write or decrease before it with no increase in between.
Honoured(k) ==
    LET from == Latest({"write", "decrease"}, k)
    IN  {b \in (from + 1)..(k - 1) :
            /\ requests[b] = "blank"
            /\ \A c \in (from + 1)..(b - 1) : requests[c] # "increase"}

\* C24: the text of a write has one blank line before it if blank() was
\* called since the latest write or decrease of the indentation at a moment
\* when the indentation had not been increased since, however often it was
\* called, and none otherwise: an increase suppresses the blank() calls that
\* follow it, a decrease drops the blank line asked for before it and
\* suppresses nothing.
C24_BlankLines ==
    \A k \in 1..Len(requests) :
        requests[k] = "write" =>
          /\ Cardinality(BlankLines(k)) = IF Honoured(k) # {} THEN 1 ELSE 0
          /\ \A i \in BlankLines(k) :
                /\ i < Len(sipFile.out)
                /\ sipFile.out[i + 1].elem = <<k>>
                /\ sipFile.out[i + 1].text # ""
          /\ \A i \in 1..Len(sipFile.out) :
                sipFile.out[i].elem = <<k>> /\ sipFile.out[i].text # ""
                    => \A j \in (i + 1)..Len(sipFile.out) : sipFile.out[j].elem # <<k>>

\* A blank() after an increase that is suppressed, then blank() twice after
\* a decrease that give one blank line.
C24_Witness ==
    /\ requests = <<"increase", "blank", "write", "decrease", "blank", "blank">>
           \o <<"write">>
    /\ Len(sipFile.out) = 3
    /\ sipFile.out[2].text = ""

\* ------------------------------------------------------------------ the access regions of a class

\* The most members of the class that is written.
MaxMembers == 3

\* The members of the class: methods of each access and a typedef, which
\* has no access, checked or ignored, all of the one version of the project.
Member(kind, access, status) ==
    [Elem(kind, "m", access, <<>>) EXCEPT !.status = status, !.sgen = "1"]
Members ==
    {Member("Method", a, st) : a \in {"", "protected", "private"},
                               st \in {"", "ignored"}}
    \cup {Member("Typedef", "", st) : st \in {"", "ignored"}}

\* A header file that declares one checked class or struct.
AccessTrees ==
    {<<[Elem("Class", "K", "", sub) EXCEPT !.status = "", !.sgen = "1",
                                           !.struct = struct]>> :
        sub \in SeqsUpTo(Members, MaxMembers), struct \in BOOLEAN}

InitAccess ==
    /\ versions = <<"1.0">>
    /\ generation = 1
    /\ dirty = FALSE
    /\ hfExists = TRUE
    /\ content \in AccessTrees
    /\ pre = <<>>
    /\ preDirty = FALSE
    /\ lastParsed = <<>>
    /\ repeated = FALSE
    /\ calls = <<>>
    /\ CallsIdle
    /\ FilesIdle
    /\ lastOp = "init"

NextAccess == generateModule

SpecAccess == InitAccess /\ [][NextAccess]_vars

\* The members of the class, and the ones that are written.
ClassMembers == content[1].content
Emitted == {i \in 1..Len(ClassMembers) : ClassMembers[i].status = ""}

\* The line of the file that is the i-th member, and the lines that are
\* access labels.
LineOf(i) == CHOOSE n \in 1..Len(sipFile.out) : sipFile.out[n].elem = <<1, i>>
AccessLines ==
    {n \in 1..Len(sipFile.out) :
        /\ sipFile.out[n].elem = <<1>>
        /\ sipFile.out[n].text \in {"public:", "protected:", "private:"}}

\* The members that are written and have an access.
WithAccess == {i \in Emitted : ClassMembers[i].kind = "Method"}

\* C25 as stated: the members of the same access are written next to each
\* other under one label, so no label is written twice and no member of
\* another access stands between two members of the same access.
C25_Grouped ==
    lastOp = "generateModule" =>
      /\ \A n, o \in AccessLines : sipFile.out[n].text = sipFile.out[o].text => n = o
      /\ \A i, j, k \in WithAccess :
            (i < j /\ j < k /\ ClassMembers[i].access = ClassMembers[k].access)
                => ClassMembers[j].access = ClassMembers[i].access

\* The access region that the i-th member is declared in: the access of
\* the latest written member before it that has one, and before the first
\* of them private in a class and public ('') in a struct.
RegionBefore(i) ==
    LET before == {j \in WithAccess : j < i}
    IN  IF before = {} THEN (IF content[1].struct THEN "" ELSE "private")
        ELSE ClassMembers[CHOOSE j \in before : \A o \in before : o <= j].access

\* The members that start a region: they have an access, and it is not the
\* one of the region they are declared in.
Starts == {i \in WithAccess : ClassMembers[i].access # RegionBefore(i)}

\* C25: Class.sip writes the members that are not passed over in the order
\* of their declaration; it writes an access label right before every
\* member with an access that differs from the region the member is
\* declared in, and no other label, so a label is repeated where an access
\* comes back; the first region is private in a class and public in a
\* struct and has no label; a member without access stays in the region.
C25_Regions ==
    lastOp = "generateModule" =>
      /\ \A i \in 1..Len(ClassMembers) :
            (i \in Emitted) <=> (\E n \in 1..Len(sipFile.out) : sipFile.out[n].elem = <<1, i>>)
      /\ \A i, j \in Emitted : i < j => LineOf(i) < LineOf(j)
      /\ \A i \in Starts :
            /\ LineOf(i) - 1 \in AccessLines
            /\ sipFile.out[LineOf(i) - 1].text =
                  (IF ClassMembers[i].access # "" THEN ClassMembers[i].access ELSE "public") \o ":"
      /\ AccessLines = {LineOf(i) - 1 : i \in Starts}

\* A class with a public, a protected and another public method: two
\* labels 'public:' are written.
C25_Witness ==
    /\ lastOp = "generateModule"
    /\ ~content[1].struct
    /\ Len(ClassMembers) = 3
    /\ Emitted = {1, 2, 3}
    /\ ClassMembers[1].access = "" /\ ClassMembers[2].access = "protected"
    /\ ClassMembers[3].access = "" /\ ClassMembers[3].kind = "Method"
    /\ Cardinality({n \in AccessLines : sipFile.out[n].text = "public:"}) = 2

====
